---- MODULE Spec2Model ----
(***************************************************************************)
(* A model of the backfill pipeline of revenium-claude-code-sdk:           *)
(* the delivery engine (sendBatchWithRetry over sendOtlpLogs), the retry   *)
(* classifier (isRetryableError) and the orchestrator (backfillCommand).   *)
(*                                                                         *)
(* Strings are sequences of one-character strings, so that the regular     *)
(* expressions, substring and length of the source are computed, not       *)
(* assumed.                                                                *)
(***************************************************************************)
EXTENDS Integers, Sequences, FiniteSets, TLC

(***************************************************************************)
(* Bounds of the model.                                                    *)
(***************************************************************************)
\* largest maxRetries handed to sendBatchWithRetry when it is run on its own
MaxRetriesBound == 4
\* longest text that follows the (possibly mangled) prefix in a classified message
MaxTailLen == 3
\* most files a discovery returns
MaxFiles == 2
\* most lines read from all files of a run together
MaxLines == 3
\* largest --batch-size
MaxBatchSize == 2
\* most entries readdir returns for one directory
MaxDirEntries == 2
\* most records handed to calculateStatistics when it is run on its own
MaxStatRecords == 3
\* most records handed to createOtlpPayload when it is run on its own
MaxPayloadRecords == 3
\* most batches whose payloads are built when the cost multiplier is run on its own
MaxCostBatches == 2
\* how far beyond maxLength the lengths of the sanitized messages go, one by one
MaxOverLength == 6
\* records in a payload whose attribution attributes are looked at
MaxAttributedRecords == 2

(***************************************************************************)
(* Strings.                                                                *)
(***************************************************************************)
Digits == {"0", "1", "2", "3", "4", "5", "6", "7", "8", "9"}

DigitVal(c) ==
  CASE c = "0" -> 0 [] c = "1" -> 1 [] c = "2" -> 2 [] c = "3" -> 3
    [] c = "4" -> 4 [] c = "5" -> 5 [] c = "6" -> 6 [] c = "7" -> 7
    [] c = "8" -> 8 [] c = "9" -> 9

DigitChar(d) ==
  CASE d = 0 -> "0" [] d = 1 -> "1" [] d = 2 -> "2" [] d = 3 -> "3"
    [] d = 4 -> "4" [] d = 5 -> "5" [] d = 6 -> "6" [] d = 7 -> "7"
    [] d = 8 -> "8" [] d = 9 -> "9"

\* parseInt(s, 10) on a string of decimal digits
RECURSIVE parseInt(_)
parseInt(s) ==
  IF s = <<>> THEN 0
  ELSE 10 * parseInt(SubSeq(s, 1, Len(s) - 1)) + DigitVal(s[Len(s)])

\* String(n) / `${n}` for an integer n >= 0
RECURSIVE NumToString(_)
NumToString(n) ==
  IF n < 10 THEN <<DigitChar(n)>>
  ELSE NumToString(n \div 10) \o <<DigitChar(n % 10)>>

SetMin(S) == CHOOSE x \in S : \A y \in S : x <= y

\* "OTLP request failed: "
OtlpPrefix ==
  <<"O", "T", "L", "P", " ", "r", "e", "q", "u", "e", "s", "t", " ",
    "f", "a", "i", "l", "e", "d", ":", " ">>

\* "fetch failed": the message of the TypeError fetch rejects with
FetchFailed == <<"f", "e", "t", "c", "h", " ", "f", "a", "i", "l", "e", "d">>

\* "Unexpected end of JSON input": the SyntaxError of response.json() on an empty body
JsonSyntaxError ==
  <<"U", "n", "e", "x", "p", "e", "c", "t", "e", "d", " ", "e", "n", "d", " ",
    "o", "f", " ", "J", "S", "O", "N", " ", "i", "n", "p", "u", "t">>

UnknownError == <<"U", "n", "k", "n", "o", "w", "n", " ", "e", "r", "r", "o", "r">>

Ellipsis == <<".", ".", ".">>

(***************************************************************************)
(* sanitizeErrorMessage and isRetryableError.                              *)
(***************************************************************************)
maxLength == 500

\* mutant: a message of exactly maxLength characters is cut as well
sanitizeErrorMessage_inclusive(errorMsg) ==
  IF Len(errorMsg) >= maxLength
  THEN SubSeq(errorMsg, 1, maxLength) \o Ellipsis
  ELSE errorMsg

sanitizeErrorMessage(errorMsg) ==
  IF Len(errorMsg) > maxLength
  THEN SubSeq(errorMsg, 1, maxLength) \o Ellipsis
  ELSE errorMsg

NoMatch == <<"no match">>

\* errorMsg.match(/OTLP request failed: (\d{3})/): the capture group of the
\* leftmost match, or NoMatch
statusMatch(errorMsg) ==
  LET n == Len(OtlpPrefix)
      at == {i \in 1..Len(errorMsg) :
               /\ i + n + 2 <= Len(errorMsg)
               /\ SubSeq(errorMsg, i, i + n - 1) = OtlpPrefix
               /\ \A k \in 0..2 : errorMsg[i + n + k] \in Digits}
  IN IF at = {} THEN NoMatch
     ELSE SubSeq(errorMsg, SetMin(at) + n, SetMin(at) + n + 2)

\* mutant: the lower bound of the client-error range is exclusive
isRetryableError_gt400(errorMsg) ==
  LET m == statusMatch(errorMsg) IN
  IF m = NoMatch THEN TRUE
  ELSE LET statusCode == parseInt(m) IN
       IF statusCode = 429 THEN TRUE
       ELSE IF statusCode > 400 /\ statusCode < 500 THEN FALSE
       ELSE TRUE

\* mutant: 429 is not exempted from the client-error range
isRetryableError_no429(errorMsg) ==
  LET m == statusMatch(errorMsg) IN
  IF m = NoMatch THEN TRUE
  ELSE LET statusCode == parseInt(m) IN
       IF statusCode >= 400 /\ statusCode < 500 THEN FALSE
       ELSE TRUE

isRetryableError(errorMsg) ==
  LET m == statusMatch(errorMsg) IN
  IF m = NoMatch THEN TRUE
  ELSE LET statusCode == parseInt(m) IN
       IF statusCode = 429 THEN TRUE
       ELSE IF statusCode >= 400 /\ statusCode < 500 THEN FALSE
       ELSE TRUE

(***************************************************************************)
(* sendOtlpLogs: one HTTP POST and what it resolves or rejects with.       *)
(***************************************************************************)
bodyLimit == 200

\* What the transport gives back: no response at all (fetch rejects), or a
\* response with a status, a status text and a body.
HttpResponse(status, statusText, body) ==
  [kind |-> "http", status |-> status, statusText |-> statusText, body |-> body]

NetworkFailure == [kind |-> "network"]

JsonBody == <<"{", "}">>

Responses ==
  { NetworkFailure,
    HttpResponse(200, <<"O", "K">>, JsonBody),
    HttpResponse(200, <<"O", "K">>, <<>>),
    HttpResponse(400, <<"B", "a", "d">>, <<"x">>),
    HttpResponse(429, <<"S", "l", "o", "w">>, <<>>),
    HttpResponse(500, <<"E", "r", "r">>, <<"x">>) }

\* The classes of answers the retry policy tells apart, by the HTTP status itself
\* (not by the message text): a client error other than 429, a delivery, and
\* every other failure.
ClientError(r) ==
  r.kind = "http" /\ r.status >= 400 /\ r.status < 500 /\ r.status # 429

Delivered(r) ==
  r.kind = "http" /\ r.status >= 200 /\ r.status <= 299 /\ r.body = <<"{", "}">>

RetryableFailure(r) == r.kind # "none" /\ ~ClientError(r) /\ ~Delivered(r)

\* response.ok
ResponseOk(r) == r.kind = "http" /\ r.status >= 200 /\ r.status <= 299

\* JSON.parse succeeds on the body (the bodies of the model: "{}" or not JSON)
IsJson(body) == body = JsonBody

Resolved == [threw |-> FALSE]
Rejected(message) == [threw |-> TRUE, message |-> message]

sendOtlpLogs(r) ==
  IF r.kind = "network" THEN Rejected(FetchFailed)
  ELSE IF ~ResponseOk(r)
  THEN LET errorText == r.body
           safeErrorText == IF Len(errorText) > bodyLimit
                            THEN SubSeq(errorText, 1, bodyLimit) \o Ellipsis
                            ELSE errorText
       IN Rejected(OtlpPrefix \o NumToString(r.status) \o <<" ">> \o r.statusText
                   \o <<" ", "-", " ">> \o safeErrorText)
  ELSE IF IsJson(r.body) THEN Resolved
  ELSE Rejected(JsonSyntaxError)

(***************************************************************************)
(* Dates.  An instant is a day number (days since 1970-01-01, UTC) and the  *)
(* time of day in ms; an Invalid Date has neither.                         *)
(***************************************************************************)
InvalidDate == [valid |-> FALSE]
DateOf(day, tod) == [valid |-> TRUE, day |-> day, tod |-> tod]

\* mutant: no instant is before another
Before_never(a, b) == FALSE

\* a < b on two valid instants
Before(a, b) == a.day < b.day \/ (a.day = b.day /\ a.tod < b.tod)

\* the day number of the civil date y-m-d (m in 1..12)
DaysFromCivil(y, m, d) ==
  LET yy == IF m <= 2 THEN y - 1 ELSE y
      era == yy \div 400
      yoe == yy - era * 400
      mp == IF m > 2 THEN m - 3 ELSE m + 9
      doy == (153 * mp + 2) \div 5 + d - 1
      doe == yoe * 365 + yoe \div 4 - yoe \div 100 + doy
  IN era * 146097 + doe - 719468

\* ECMAScript MakeDay(year, month, date) with a 0-based month that may overflow
MakeDay(year, month, date) ==
  DaysFromCivil(year + month \div 12, (month % 12) + 1, 1) + date - 1

\* ECMAScript TimeClip: instants beyond +-100,000,000 days are Invalid Date
TimeClip(day, tod) ==
  IF day < -100000000 \/ day > 100000000 \/ (day = 100000000 /\ tod > 0)
  THEN InvalidDate
  ELSE DateOf(day, tod)

\* new Date(): the clock reads 2024-01-15T12:00:00Z
Now == [year |-> 2024, month |-> 0, date |-> 15, tod |-> 12 * 3600000]

IsDigits(s) == \A k \in 1..Len(s) : s[k] \in Digits

\* new Date(s) for the strings of the model: the ISO date-only form
\* YYYY-MM-DD is an instant at midnight UTC; everything else the model feeds
\* in (text without any digit) is an Invalid Date.
DateParse(s) ==
  IF /\ Len(s) = 10
     /\ s[5] = "-" /\ s[8] = "-"
     /\ IsDigits(SubSeq(s, 1, 4)) /\ IsDigits(SubSeq(s, 6, 7)) /\ IsDigits(SubSeq(s, 9, 10))
     /\ parseInt(SubSeq(s, 6, 7)) \in 1..12
     /\ parseInt(SubSeq(s, 9, 10)) \in 1..31
  \* year, month and date are bound to their values, each computed once
  THEN CHOOSE instant \in
         {TimeClip(MakeDay(year, month - 1, date), 0) :
            year \in {parseInt(SubSeq(s, 1, 4))},
            month \in {parseInt(SubSeq(s, 6, 7))},
            date \in {parseInt(SubSeq(s, 9, 10))}} : TRUE
  ELSE InvalidDate

Null == [null |-> TRUE]
Undefined == <<"<undefined>">>

\* parseRelativeDate: /^(\d+)([dmwMy])$/, then the setDate / setMonth /
\* setFullYear of the unit on the current time
parseRelativeDate(input) ==
  IF ~(/\ Len(input) >= 2
       /\ IsDigits(SubSeq(input, 1, Len(input) - 1))
       /\ input[Len(input)] \in {"d", "m", "w", "M", "y"})
  THEN Null
  ELSE LET amount == parseInt(SubSeq(input, 1, Len(input) - 1))
           unit == input[Len(input)]
       IN CASE unit = "d" ->
                 TimeClip(MakeDay(Now.year, Now.month, Now.date - amount), Now.tod)
            [] unit = "w" ->
                 TimeClip(MakeDay(Now.year, Now.month, Now.date - amount * 7), Now.tod)
            [] unit \in {"m", "M"} ->
                 TimeClip(MakeDay(Now.year, Now.month - amount, Now.date), Now.tod)
            [] unit = "y" ->
                 TimeClip(MakeDay(Now.year - amount, Now.month, Now.date), Now.tod)

\* parseSinceDate: the relative form first, then new Date(since)
parseSinceDate(since) ==
  LET relativeDate == parseRelativeDate(since) IN
  IF relativeDate # Null THEN relativeDate
  ELSE LET isoDate == DateParse(since) IN
       IF isoDate.valid THEN isoDate ELSE Null

(***************************************************************************)
(* State.                                                                  *)
(***************************************************************************)
VARIABLES
  \* sendBatchWithRetry
  maxRetries,     \* its parameter
  attempt,        \* the loop variable (0-based)
  epc,            \* "idle" | "try" | "backoff" | "done"
  errorMsg,       \* the sanitized message of the last failed attempt
  elapsed,        \* ms slept since the last failure was caught
  deliveryCalls,  \* calls of sendOtlpLogs made by this run of the engine
  backoffs,       \* the backoff waits of this run, in order (ms)
  retryResult,    \* the RetryResult returned, or NoResult
  lastResponse,   \* what the transport answered to the last call
  retryableFailures, \* calls of this run answered by a failure that is no client error
  \* isRetryableError applied to a message
  probeMsg, probeVerdict,
  \* a function applied to arguments
  probeIn,        \* the arguments
  probeOut,       \* <<>> before the call, then <<what the call gave>>
  \* streamJsonlRecords: one generator and its consumer
  gpc,            \* "none" | "suspendedStart" | "running" | "suspendedYield" |
                  \* "completed"
  genYields,      \* what the generator yielded, in order
  genEnd,         \* how the iteration ended: "" | "done" | "returned" | "threw"
  \* streamJsonlRecords: its file handle
  fileStream,     \* "none" | "open" | "destroyed"
  rl,             \* "none" | "open" | "closed"
  \* backfillCommand: its options
  since, dryRun, batchSize, delay, verbose,
  \* backfillCommand: where it is, and how the process ended
  pc,             \* "idle" | "loadConfig" | "parseSince" | "discover" | "stream" |
                  \* "summary" | "batch" | "sending" | "delay" |
                  \* "exited" | "returned" | "threw"
  exitCode,       \* the argument of process.exit, or NoExit
  calls,          \* how often each collaborator was called
  \* backfillCommand: its locals
  config, sinceDate,
  jsonlFiles, discoveryErrors,
  fileIdx,        \* the file being streamed (1-based index into jsonlFiles)
  linesRead,      \* lines read so far, over all files
  allRecords, processedFiles, skippedLines, skippedFiles, skippedMissingFields,
  stats, samplePayload,
  i, sentBatches, sentRecords, permanentlyFailedBatches, totalRetryAttempts,
  failedBatchDetails,
  \* what was observed of the run
  yielded,        \* the records the streams yielded, in the order they did, each
                  \* with the file it was read from
  opened,         \* the files streamRecords was called for, in the order of the calls
  handed,         \* the payloads handed to sendBatchWithRetry, in order
  delays          \* the inter-batch delays slept, in order (ms)

optVars == <<since, dryRun, batchSize, delay, verbose>>
streamVars == <<fileIdx, linesRead, allRecords, processedFiles, skippedLines,
                skippedFiles, skippedMissingFields, yielded, opened, fileStream, rl>>
sendVars == <<i, sentBatches, sentRecords, permanentlyFailedBatches,
              totalRetryAttempts, failedBatchDetails, handed, delays>>
cmdVars == <<optVars, pc, exitCode, calls, config, sinceDate, jsonlFiles,
             discoveryErrors, streamVars, stats, samplePayload, sendVars>>

vars == <<maxRetries, attempt, epc, errorMsg, elapsed, deliveryCalls, backoffs,
          retryResult, lastResponse, retryableFailures, probeMsg, probeVerdict,
          probeIn, probeOut, gpc, genYields, genEnd, cmdVars>>

engineVars == <<maxRetries, attempt, epc, errorMsg, elapsed, deliveryCalls,
                backoffs, retryResult, lastResponse, retryableFailures>>
probeVars == <<probeMsg, probeVerdict, probeIn, probeOut>>
genVars == <<gpc, genYields, genEnd>>
asideVars == <<probeVars, genVars>>

NoResult == [none |-> TRUE]
NoResponse == [kind |-> "none"]
NoVerdict == <<>>

\* setTimeout fires no earlier than asked, possibly later
TimerOvershoot == {0, 1}

(***************************************************************************)
(* sendBatchWithRetry.                                                     *)
(***************************************************************************)
\* mutant: linear instead of exponential backoff
backoffDelay_linear(a) == 1000 * (a + 1)

backoffDelay(a) == 1000 * 2^a

\* mutant: the last allowed attempt is retried too
mayRetry_offByOne(a, n) == a < n

\* a retryable failure is followed by a backoff and another attempt
mayRetry(a, n) == a < n - 1

\* mutant: the 0-based loop variable is reported as the number of attempts
successResult_zeroBased(a) == [success |-> TRUE, attempts |-> a]

successResult(a) == [success |-> TRUE, attempts |-> a + 1]

\* the call: the loop is entered, or skipped when maxRetries < 1
EngineStart(n) ==
  /\ maxRetries' = n
  /\ attempt' = 0
  /\ errorMsg' = <<>>
  /\ elapsed' = 0
  /\ deliveryCalls' = 0
  /\ backoffs' = <<>>
  /\ lastResponse' = NoResponse
  /\ retryableFailures' = 0
  /\ IF 0 < n
     THEN epc' = "try" /\ retryResult' = NoResult
     ELSE epc' = "done" /\ retryResult' = [success |-> FALSE, attempts |-> n]

\* one iteration up to its return or its await sleep(): the delivery call,
\* and the catch clause when it rejects
Attempt ==
  /\ epc = "try"
  /\ \E r \in Responses :
       LET out == sendOtlpLogs(r) IN
       /\ lastResponse' = r
       /\ deliveryCalls' = deliveryCalls + 1
       /\ retryableFailures' = IF RetryableFailure(r) THEN retryableFailures + 1
                                ELSE retryableFailures
       /\ IF ~out.threw
          THEN /\ retryResult' = successResult(attempt)
               /\ epc' = "done"
               /\ UNCHANGED <<errorMsg, elapsed>>
          ELSE LET msg == sanitizeErrorMessage(out.message) IN
               /\ errorMsg' = msg
               /\ elapsed' = 0
               /\ IF ~isRetryableError(msg)
                  THEN /\ retryResult' = [success |-> FALSE, attempts |-> attempt + 1,
                                          error |-> msg]
                       /\ epc' = "done"
                  ELSE IF mayRetry(attempt, maxRetries)
                  THEN /\ epc' = "backoff"
                       /\ UNCHANGED retryResult
                  ELSE /\ retryResult' = [success |-> FALSE, attempts |-> maxRetries,
                                          error |-> msg]
                       /\ epc' = "done"
  /\ UNCHANGED <<maxRetries, attempt, backoffs>>

\* await sleep(backoffDelay), then attempt++ and the loop condition
Backoff ==
  /\ epc = "backoff"
  /\ \E over \in TimerOvershoot :
       elapsed' = elapsed + backoffDelay(attempt) + over
  /\ backoffs' = Append(backoffs, backoffDelay(attempt))
  /\ attempt' = attempt + 1
  /\ IF attempt + 1 < maxRetries
     THEN epc' = "try" /\ UNCHANGED retryResult
     ELSE epc' = "done" /\ retryResult' = [success |-> FALSE, attempts |-> maxRetries]
  /\ UNCHANGED <<maxRetries, errorMsg, deliveryCalls, lastResponse, retryableFailures>>

(***************************************************************************)
(* Records, lines and parseJsonlLine.                                      *)
(***************************************************************************)
\* a line given by its characters
TextLine(s) == [kind |-> "text", text |-> s]
\* a line that holds JSON text for the value v
JsonLine(v) == [kind |-> "json", value |-> v]
\* a JSON object with the members o
JsonObject(o) == [t |-> "object", o |-> o]

TsLate == <<"2", "0", "2", "4", "-", "0", "1", "-", "1", "4">>
TsEarly == <<"2", "0", "2", "4", "-", "0", "1", "-", "1", "0">>

\* The lines a file may hold.
LineList ==
  << TextLine(<<>>),
     TextLine(<<"x", "{">>),
     JsonLine([t |-> "null"]),
     JsonLine([t |-> "number"]),
     JsonLine(JsonObject([type |-> "user", sessionId |-> <<"a">>, timestamp |-> TsLate])),
     JsonLine(JsonObject([type |-> "assistant", sessionId |-> <<"a">>, timestamp |-> TsLate,
                          message |-> [model |-> <<"m">>]])),
     JsonLine(JsonObject([type |-> "assistant", timestamp |-> TsLate,
                          message |-> [model |-> <<"m">>,
                                       usage |-> [input_tokens |-> 5]]])),
     JsonLine(JsonObject([type |-> "assistant", sessionId |-> <<"a">>, timestamp |-> <<"x">>,
                          message |-> [model |-> <<"m">>,
                                       usage |-> [input_tokens |-> 5]]])),
     JsonLine(JsonObject([type |-> "assistant", sessionId |-> <<"a">>, timestamp |-> TsLate,
                          message |-> [model |-> <<"m">>,
                                       usage |-> [input_tokens |-> 0, output_tokens |-> 0]]])),
     JsonLine(JsonObject([type |-> "assistant", sessionId |-> <<"a">>, timestamp |-> TsLate,
                          message |-> [model |-> <<"m">>,
                                       usage |-> [input_tokens |-> 100, output_tokens |-> 50,
                                                  cache_read_input_tokens |-> 0,
                                                  cache_creation_input_tokens |-> 0]]])),
     JsonLine(JsonObject([type |-> "assistant", sessionId |-> <<"b">>, timestamp |-> TsEarly,
                          message |-> [model |-> <<"m">>,
                                       usage |-> [input_tokens |-> 7]]])) >>

\* o.k, or Undefined
Member(o, k) == IF k \in DOMAIN o THEN o[k] ELSE Undefined
\* !s for a string or undefined
Falsy(s) == s = Undefined \/ s = <<>>
\* usage.k || 0
TokenCount(usage, k) == IF k \in DOMAIN usage THEN usage[k] ELSE 0

SkipLine == [tag |-> "skip"]
ParseErrorLine == [tag |-> "parseError"]
MissingFieldsLine == [tag |-> "missingFields"]
RecordLine(r) == [tag |-> "record", record |-> r]
ThrowsTypeError == [tag |-> "throw"]

\* the white space String.prototype.trim and JSON.parse both pass over
WhiteSpace == {" ", "\t"}

\* line.trim()
RECURSIVE trim(_)
trim(s) ==
  IF s = <<>> THEN s
  ELSE IF s[1] \in WhiteSpace THEN trim(Tail(s))
  ELSE IF s[Len(s)] \in WhiteSpace THEN trim(SubSeq(s, 1, Len(s) - 1))
  ELSE s

JsonSyntaxFailure == [t |-> "SyntaxError"]

\* JSON.parse(line): of a line given by its characters it reads null, true,
\* false and the natural numbers, and fails on all else
JsonParse(line) ==
  IF line.kind = "json" THEN line.value
  ELSE LET s == trim(line.text) IN
       IF s = <<"n", "u", "l", "l">> THEN [t |-> "null"]
       ELSE IF s = <<"t", "r", "u", "e">> \/ s = <<"f", "a", "l", "s", "e">>
       THEN [t |-> "boolean"]
       ELSE IF IsDigits(s) /\ (Len(s) = 1 \/ s[1] # "0") THEN [t |-> "number"]
       ELSE JsonSyntaxFailure

parseJsonlLine(line, cutoff) ==
  IF line.kind = "text" /\ trim(line.text) = <<>> THEN SkipLine
  ELSE IF JsonParse(line) = JsonSyntaxFailure THEN ParseErrorLine
  ELSE LET entry == JsonParse(line) IN
    \* entry.type on null raises a TypeError; on a number it is undefined
    IF entry.t = "null" THEN ThrowsTypeError
    ELSE IF entry.t # "object" THEN SkipLine
    ELSE LET o == entry.o IN
      IF \/ ~("type" \in DOMAIN o /\ o.type = "assistant")
         \/ ~("message" \in DOMAIN o /\ "usage" \in DOMAIN o.message)
      THEN SkipLine
      ELSE LET usage == o.message.usage
               timestamp == Member(o, "timestamp")
               sessionId == Member(o, "sessionId")
               model == Member(o.message, "model")
           IN
        IF Falsy(timestamp) \/ Falsy(sessionId) \/ Falsy(model) THEN MissingFieldsLine
        ELSE LET entryDate == DateParse(timestamp) IN
          IF ~entryDate.valid THEN SkipLine
          ELSE IF cutoff # Null /\ Before(entryDate, cutoff) THEN SkipLine
          ELSE LET totalTokens == TokenCount(usage, "input_tokens")
                                  + TokenCount(usage, "output_tokens")
                                  + TokenCount(usage, "cache_read_input_tokens")
                                  + TokenCount(usage, "cache_creation_input_tokens")
               IN
            IF totalTokens = 0 THEN SkipLine
            ELSE RecordLine(
                   [sessionId |-> sessionId, timestamp |-> timestamp, model |-> model,
                    inputTokens |-> TokenCount(usage, "input_tokens"),
                    outputTokens |-> TokenCount(usage, "output_tokens"),
                    cacheReadTokens |-> TokenCount(usage, "cache_read_input_tokens"),
                    cacheCreationTokens |-> TokenCount(usage, "cache_creation_input_tokens")])

(***************************************************************************)
(* calculateStatistics.                                                    *)
(***************************************************************************)
\* mutant: the comparator with its operands exchanged
LaterThan_reversed(a, b) ==
  LET da == DateParse(a.timestamp)
      db == DateParse(b.timestamp)
  IN da.valid /\ db.valid /\ Before(da, db)

\* the comparator of the sort: a.getTime() - b.getTime() > 0 (a NaN counts as 0)
LaterThan(a, b) ==
  \E da \in {DateParse(a.timestamp)}, db \in {DateParse(b.timestamp)} :
    da.valid /\ db.valid /\ Before(db, da)

\* r put behind the last element of the sorted s that is not later than it
InsertByTime(r, s) ==
  LET later == {k \in 1..Len(s) : LaterThan(s[k], r)}
      at == IF later = {} THEN Len(s) + 1 ELSE SetMin(later)
  IN SubSeq(s, 1, at - 1) \o <<r>> \o SubSeq(s, at, Len(s))

\* Array.prototype.sort with this comparator (stable)
RECURSIVE SortByTime(_)
SortByTime(s) ==
  IF s = <<>> THEN <<>>
  \* the sorted front part is bound to its value, computed once
  ELSE CHOOSE sorted \in {InsertByTime(s[Len(s)], front) :
                            front \in {SortByTime(SubSeq(s, 1, Len(s) - 1))}} : TRUE

RECURSIVE SumOf(_, _)
SumOf(s, f) == IF s = <<>> THEN 0 ELSE s[1][f] + SumOf(Tail(s), f)

calculateStatistics(records) ==
  IF Len(records) = 0
  THEN [totalRecords |-> 0, oldestTimestamp |-> <<>>, newestTimestamp |-> <<>>,
        totalInputTokens |-> 0, totalOutputTokens |-> 0,
        totalCacheReadTokens |-> 0, totalCacheCreationTokens |-> 0]
  \* sortedRecords is bound to the sorted copy, computed once
  ELSE CHOOSE statistics \in
         {[totalRecords |-> Len(records),
           oldestTimestamp |-> sortedRecords[1].timestamp,
           newestTimestamp |-> sortedRecords[Len(sortedRecords)].timestamp,
           totalInputTokens |-> SumOf(records, "inputTokens"),
           totalOutputTokens |-> SumOf(records, "outputTokens"),
           totalCacheReadTokens |-> SumOf(records, "cacheReadTokens"),
           totalCacheCreationTokens |-> SumOf(records, "cacheCreationTokens")] :
            sortedRecords \in {SortByTime(records)}} : TRUE

\* mutant: the list itself is sorted, not a copy of it
recordsAfterStatistics_inPlace(records) == SortByTime(records)

\* the caller's list once calculateStatistics has returned: [...records].sort
\* sorts a copy
recordsAfterStatistics(records) == records

(***************************************************************************)
(* createOtlpPayload.                                                      *)
(***************************************************************************)
\* mutant: a timestamp without a time of day is not converted
toUnixNano_needsTimeOfDay(timestamp) ==
  LET date == DateParse(timestamp) IN
  IF ~date.valid \/ Len(timestamp) <= 10 THEN Null
  ELSE [ns |-> TRUE, day |-> date.day, tod |-> date.tod]

\* toUnixNano: null for an Invalid Date, else the instant in ns (kept as the
\* day and the ms of the day it is computed from)
toUnixNano(timestamp) ==
  LET date == DateParse(timestamp) IN
  IF ~date.valid THEN Null
  ELSE [ns |-> TRUE, day |-> date.day, tod |-> date.tod]

RECURSIVE JoinWith(_, _)
JoinWith(parts, sep) ==
  IF Len(parts) = 0 THEN <<>>
  ELSE IF Len(parts) = 1 THEN parts[1]
  ELSE parts[1] \o sep \o JoinWith(Tail(parts), sep)

\* mutant: the timestamp is hashed before the session id
generateTransactionId_timestampFirst(c) ==
  [sha256 |-> JoinWith(<<c.timestamp, c.sessionId, c.model,
                          NumToString(c.inputTokens), NumToString(c.outputTokens),
                          NumToString(c.cacheReadTokens),
                          NumToString(c.cacheCreationTokens)>>, <<"|">>),
   hexDigits |-> 32]

\* mutant: the model is left out of the hashed text
generateTransactionId_withoutModel(c) ==
  [sha256 |-> JoinWith(<<c.sessionId, c.timestamp,
                          NumToString(c.inputTokens), NumToString(c.outputTokens),
                          NumToString(c.cacheReadTokens),
                          NumToString(c.cacheCreationTokens)>>, <<"|">>),
   hexDigits |-> 32]

\* generateTransactionId: the first 32 hex digits of the SHA-256 of the joined
\* fields; the digest is kept as the text it is the digest of
generateTransactionId(c) ==
  [sha256 |-> JoinWith(<<c.sessionId, c.timestamp, c.model,
                          NumToString(c.inputTokens), NumToString(c.outputTokens),
                          NumToString(c.cacheReadTokens),
                          NumToString(c.cacheCreationTokens)>>, <<"|">>),
   hexDigits |-> 32]

Attr(key, value) == [key |-> key, value |-> value]

stringValue(v) == [stringValue |-> v]

intValue(n) == [intValue |-> n]

\* mutant: a multiplier of 0 is taken for a missing one
costMultiplierValue_zeroIsAbsent(costMultiplier) ==
  [doubleValue |-> IF costMultiplier = 0 THEN 8 ELSE costMultiplier]

\* { doubleValue: costMultiplier }
costMultiplierValue(costMultiplier) == [doubleValue |-> costMultiplier]

logRecordOf(record, options) ==
  [timeUnixNano |-> toUnixNano(record.timestamp),
   body |-> stringValue("claude_code.api_request"),
   attributes |->
     << Attr("transaction_id", stringValue(generateTransactionId(record))),
        Attr("session.id", stringValue(record.sessionId)),
        Attr("model", stringValue(record.model)),
        Attr("input_tokens", intValue(record.inputTokens)),
        Attr("output_tokens", intValue(record.outputTokens)),
        Attr("cache_read_tokens", intValue(record.cacheReadTokens)),
        Attr("cache_creation_tokens", intValue(record.cacheCreationTokens)) >>
     \o (IF Falsy(options.email) THEN <<>>
         ELSE <<Attr("user.email", stringValue(options.email))>>)
     \o (IF Falsy(options.organizationId) THEN <<>>
         ELSE <<Attr("organization.id", stringValue(options.organizationId))>>)
     \o (IF Falsy(options.productId) THEN <<>>
         ELSE <<Attr("product.id", stringValue(options.productId))>>)]

RECURSIVE logRecordsOf(_, _)
logRecordsOf(records, options) ==
  IF records = <<>> THEN <<>>
  ELSE (IF toUnixNano(records[1].timestamp) = Null THEN <<>>
        ELSE <<logRecordOf(records[1], options)>>)
       \o logRecordsOf(Tail(records), options)

createOtlpPayload(records, options) ==
  [resourceLogs |->
     << [resource |->
           [attributes |->
              <<Attr("service.name", stringValue("claude-code")),
                Attr("cost_multiplier", costMultiplierValue(options.costMultiplier))>>],
         scopeLogs |->
           << [scope |-> [name |-> "claude-code", version |-> "1.0.0"],
               logRecords |-> logRecordsOf(records, options)] >>] >>]

\* the log records of a payload
logRecordsIn(payload) == payload.resourceLogs[1].scopeLogs[1].logRecords

NoPayload == [none |-> TRUE]

(***************************************************************************)
(* backfillCommand.                                                        *)
(***************************************************************************)
maxRetriesOfBackfill == 3
sampleLimit == 3

\* the tier multipliers and the default, in hundredths
defaultCostMultiplier == 8
getCostMultiplier(tier) ==
  CASE tier = "pro" -> 16 [] tier = "max_5x" -> 16 [] tier = "max_20x" -> 8
    [] tier = "team_premium" -> 24 [] tier = "enterprise" -> 5 [] tier = "api" -> 100

\* mutant: || in the place of ??, an override of 0 counts as none
resolveCostMultiplier_zeroIsNone(c) ==
  IF "costMultiplierOverride" \in DOMAIN c /\ c.costMultiplierOverride # 0
  THEN c.costMultiplierOverride
  ELSE IF "subscriptionTier" \in DOMAIN c /\ c.subscriptionTier # ""
  THEN getCostMultiplier(c.subscriptionTier)
  ELSE defaultCostMultiplier

\* config.costMultiplierOverride ?? (config.subscriptionTier ? tier : default);
\* an empty tier string is falsy
resolveCostMultiplier(c) ==
  IF "costMultiplierOverride" \in DOMAIN c THEN c.costMultiplierOverride
  ELSE IF "subscriptionTier" \in DOMAIN c /\ c.subscriptionTier # ""
  THEN getCostMultiplier(c.subscriptionTier)
  ELSE defaultCostMultiplier

\* what loadConfig resolves with
SomeConfig == [apiKey |-> <<"k">>, endpoint |-> <<"e">>, subscriptionTier |-> "pro"]
ConfigChoices == <<Null, SomeConfig>>

payloadOptions(c) ==
  [costMultiplier |-> resolveCostMultiplier(c),
   email |-> Member(c, "email"),
   organizationId |-> Member(c, "organizationId"),
   productId |-> Member(c, "productId")]

\* the values of --since
SinceChoices ==
  { Undefined,
    <<>>,
    <<"7", "d">>,
    <<"2", "0", "2", "4", "-", "0", "1", "-", "1", "2">>,
    <<"i", "n", "v", "a", "l", "i", "d", "-", "d", "a", "t", "e">>,
    <<"9", "9", "9", "9", "9", "9", "9", "9", "9", "d">> }

\* the defaults of --batch-size and --delay
defaultBatchSize == 100
defaultDelay == 100

DelayChoices == {defaultDelay}
BatchSizeChoices == (1..MaxBatchSize) \cup {defaultBatchSize}

\* the options of a run: every combination for a dry run; a run that sends is
\* taken without --verbose, with --since absent or refused, and with the
\* largest of the small batch sizes or the default one; the largest of the
\* small batch sizes is also taken with a cut-off date
OptionChoices ==
  [since : SinceChoices, dryRun : {TRUE}, batchSize : BatchSizeChoices,
   verbose : BOOLEAN]
  \cup [since : {<<"2", "0", "2", "4", "-", "0", "1", "-", "1", "2">>},
        dryRun : {FALSE}, batchSize : {MaxBatchSize}, verbose : {FALSE}]
  \cup [since : {Undefined, <<"i", "n", "v", "a", "l", "i", "d", "-", "d", "a", "t", "e">>, <<"9", "9", "9", "9", "9", "9", "9", "9", "9", "d">>},
        dryRun : {FALSE}, batchSize : {MaxBatchSize, defaultBatchSize},
        verbose : {FALSE}]

\* the directory errors findJsonlFiles may report
DiscoveryErrorChoices == {<<>>, <<<<"E", "A", "C", "C", "E", "S">>>>}

NoExit == <<>>
NoStats == [none |-> TRUE]
NoCalls ==
  [loadConfig |-> 0, parseSinceDate |-> 0, findFiles |-> 0, streamRecords |-> 0,
   sendBatch |-> 0, sleep |-> 0]

Called(f) == calls' = [calls EXCEPT ![f] = @ + 1]

MinOf(a, b) == IF a < b THEN a ELSE b

\* records.slice(from, to) with 0-based from (inclusive) and to (exclusive)
Slice(records, from, to) == SubSeq(records, from + 1, MinOf(to, Len(records)))

EngineIdle ==
  /\ maxRetries = 0
  /\ attempt = 0
  /\ epc = "idle"
  /\ errorMsg = <<>>
  /\ elapsed = 0
  /\ deliveryCalls = 0
  /\ backoffs = <<>>
  /\ retryResult = NoResult
  /\ lastResponse = NoResponse
  /\ retryableFailures = 0

\* sendBatchWithRetry has returned to its caller: its locals are gone
EngineReturn ==
  /\ maxRetries' = 0
  /\ attempt' = 0
  /\ epc' = "idle"
  /\ errorMsg' = <<>>
  /\ elapsed' = 0
  /\ deliveryCalls' = 0
  /\ backoffs' = <<>>
  /\ retryResult' = NoResult
  /\ lastResponse' = NoResponse
  /\ retryableFailures' = 0

\* no function is being applied
NoCall ==
  /\ probeIn = <<>>
  /\ probeOut = <<>>

\* no generator of streamJsonlRecords is being watched
GenIdle ==
  /\ gpc = "none"
  /\ genYields = <<>>
  /\ genEnd = ""

ProbeIdle ==
  /\ probeMsg = <<>>
  /\ probeVerdict = NoVerdict
  /\ NoCall
  /\ GenIdle

\* mutant: the sample is cut at the limit whatever the batch size
sampleSize_ignoresBatchSize(size) == sampleLimit

\* the number of records of the sample payload: Math.min(batchSize, 3)
sampleSize(size) == MinOf(size, sampleLimit)

\* mutant: the loop does not stop at the end of the list
moreBatches_always(next, n) == TRUE

\* mutant: the loop gives up one record early
moreBatches_strict(next, n) == next + 1 < n

\* the condition of the sending loop: i < allRecords.length
moreBatches(next, n) == next < n

\* mutant: a delay follows every batch
delayDue_afterLast(at, size, n) == at < n

\* the condition of the inter-batch delay: i + batchSize < allRecords.length
delayDue(at, size, n) == at + size < n

\* i takes its next value and the condition of the loop is evaluated
LoopTest(next) ==
  /\ i' = next
  /\ pc' = IF moreBatches(next, Len(allRecords)) THEN "batch" ELSE "returned"

\* const config = await getConfig(); process.exit(1) without one
LoadConfig ==
  /\ pc = "loadConfig"
  /\ Called("loadConfig")
  /\ \E k \in 1..Len(ConfigChoices) :
       /\ config' = ConfigChoices[k]
       /\ IF ConfigChoices[k] = Null
          THEN pc' = "exited" /\ exitCode' = <<1>>
          ELSE pc' = "parseSince" /\ UNCHANGED exitCode
  /\ UNCHANGED <<optVars, sinceDate, jsonlFiles, discoveryErrors, streamVars, stats,
                 samplePayload, sendVars, engineVars, asideVars>>

\* if (since) { sinceDate = parseSinceDate(since); ... }
ParseSince ==
  /\ pc = "parseSince"
  /\ IF since = Undefined \/ since = <<>>
     THEN /\ sinceDate' = Null
          /\ pc' = "discover"
          /\ UNCHANGED <<exitCode, calls>>
     ELSE LET parsed == parseSinceDate(since) IN
          /\ Called("parseSinceDate")
          /\ sinceDate' = parsed
          /\ IF parsed = Null
             THEN pc' = "exited" /\ exitCode' = <<1>>
             \* sinceDate.toISOString() raises a RangeError on an Invalid Date
             ELSE IF ~parsed.valid
             THEN pc' = "threw" /\ UNCHANGED exitCode
             ELSE pc' = "discover" /\ UNCHANGED exitCode
  /\ UNCHANGED <<optVars, config, jsonlFiles, discoveryErrors, streamVars, stats,
                 samplePayload, sendVars, engineVars, asideVars>>

\* const {files, errors} = await findFiles(projectsDir), and the report of it
Discover ==
  /\ pc = "discover"
  /\ Called("findFiles")
  /\ \E n \in 0..MaxFiles, errors \in DiscoveryErrorChoices :
       /\ jsonlFiles' = [k \in 1..n |-> k]
       /\ discoveryErrors' = errors
       /\ IF Len(errors) > 0 /\ verbose
          THEN pc' = "stream" /\ UNCHANGED exitCode
          ELSE IF n = 0
          THEN pc' = "exited" /\ exitCode' = <<1>>
          ELSE pc' = "stream" /\ UNCHANGED exitCode
  /\ UNCHANGED <<optVars, config, sinceDate, streamVars, stats, samplePayload,
                 sendVars, engineVars, asideVars>>

Streaming == pc = "stream" /\ fileIdx <= Len(jsonlFiles)

\* streamJsonlRecords: createReadStream(filePath), createInterface({input})
acquire ==
  /\ fileStream' = "open"
  /\ rl' = "open"

\* mutant: the handle is released when the file was read to its end only
finallyBlock_onlyOnCompletion(path) ==
  IF path = "done"
  THEN fileStream' = "destroyed" /\ rl' = "closed"
  ELSE UNCHANGED <<fileStream, rl>>

\* streamJsonlRecords: finally { fileStream.destroy(); rl.close(); }, on the
\* path "done", "returned" or "threw"
finallyBlock(path) ==
  /\ fileStream' = "destroyed"
  /\ rl' = "closed"

\* mutant: the catch clause of the file loop drops what was collected
keptAfterFailure_rollsBack(records) == <<>>

\* the catch clause of the file loop leaves the list as it is
keptAfterFailure(records) == records

\* mutant: the file after a failed one is passed over
afterFailedFile_skipsOne(idx) == idx + 2

\* the catch clause of the file loop falls through to the next file
afterFailedFile(idx) == idx + 1

\* streamRecords(file, sinceDate) is called for the next file
OpenFile ==
  /\ Streaming
  /\ calls.streamRecords < fileIdx
  /\ Called("streamRecords")
  /\ opened' = Append(opened, jsonlFiles[fileIdx])
  /\ acquire
  /\ UNCHANGED <<optVars, pc, exitCode, config, sinceDate, jsonlFiles, discoveryErrors,
                 fileIdx, linesRead, allRecords, processedFiles, skippedLines,
                 skippedFiles, skippedMissingFields, yielded, stats, samplePayload,
                 sendVars, engineVars, asideVars>>

\* the stream reads one more line; what parseJsonlLine makes of it reaches the
\* loop of backfillCommand (or its catch clause, when parseJsonlLine raises)
ReadLine ==
  /\ Streaming
  /\ calls.streamRecords = fileIdx
  /\ linesRead < MaxLines
  /\ linesRead' = linesRead + 1
  /\ \E k \in 1..Len(LineList) :
       LET result == parseJsonlLine(LineList[k], sinceDate) IN
       /\ allRecords' = IF result.tag = "record" THEN Append(allRecords, result.record)
                        ELSE IF result.tag = "throw" THEN keptAfterFailure(allRecords)
                        ELSE allRecords
       /\ yielded' = IF result.tag = "record"
                     THEN Append(yielded, [file |-> jsonlFiles[fileIdx],
                                           record |-> result.record])
                     ELSE yielded
       /\ skippedLines' = IF result.tag = "parseError" THEN skippedLines + 1
                          ELSE skippedLines
       /\ skippedMissingFields' = IF result.tag = "missingFields"
                                  THEN skippedMissingFields + 1
                                  ELSE skippedMissingFields
       /\ skippedFiles' = IF result.tag = "throw" THEN skippedFiles + 1 ELSE skippedFiles
       /\ fileIdx' = IF result.tag = "throw" THEN afterFailedFile(fileIdx) ELSE fileIdx
       /\ IF result.tag = "throw" THEN finallyBlock("threw")
          ELSE UNCHANGED <<fileStream, rl>>
  /\ UNCHANGED <<optVars, pc, exitCode, calls, config, sinceDate, jsonlFiles,
                 discoveryErrors, processedFiles, opened, stats, samplePayload, sendVars,
                 engineVars, asideVars>>

\* the stream ends: processedFiles++
EndOfFile ==
  /\ Streaming
  /\ calls.streamRecords = fileIdx
  /\ processedFiles' = processedFiles + 1
  /\ fileIdx' = fileIdx + 1
  /\ finallyBlock("done")
  /\ UNCHANGED <<optVars, pc, exitCode, calls, config, sinceDate, jsonlFiles,
                 discoveryErrors, linesRead, allRecords, skippedLines, skippedFiles,
                 skippedMissingFields, yielded, opened, stats, samplePayload, sendVars,
                 engineVars, asideVars>>

\* the file cannot be opened, or reading it fails: the catch clause, skippedFiles++
StreamError ==
  /\ Streaming
  /\ calls.streamRecords = fileIdx
  /\ skippedFiles' = skippedFiles + 1
  /\ allRecords' = keptAfterFailure(allRecords)
  /\ fileIdx' = afterFailedFile(fileIdx)
  /\ finallyBlock("threw")
  /\ UNCHANGED <<optVars, pc, exitCode, calls, config, sinceDate, jsonlFiles,
                 discoveryErrors, linesRead, processedFiles, skippedLines,
                 skippedMissingFields, yielded, opened, stats, samplePayload, sendVars,
                 engineVars, asideVars>>

\* mutant: the run goes on without records
emptyResult_never(records) == FALSE

\* the condition of the early return: allRecords.length === 0
emptyResult(records) == Len(records) = 0

\* after the last file: the early return without records, the statistics, the
\* dry run, and the set-up of the sending loop
Summary ==
  /\ pc = "stream"
  /\ fileIdx > Len(jsonlFiles)
  /\ IF emptyResult(allRecords)
     THEN /\ pc' = "returned"
          /\ UNCHANGED <<allRecords, stats, samplePayload>>
     ELSE /\ stats' = calculateStatistics(allRecords)
          /\ allRecords' = recordsAfterStatistics(allRecords)
          /\ IF dryRun
             THEN /\ pc' = "returned"
                  /\ samplePayload' =
                       IF verbose
                       THEN createOtlpPayload(
                              Slice(allRecords', 0, sampleSize(batchSize)),
                              payloadOptions(config))
                       ELSE NoPayload
             ELSE /\ LoopTest(0)
                  /\ UNCHANGED samplePayload
  /\ IF emptyResult(allRecords) \/ dryRun THEN UNCHANGED i ELSE TRUE
  /\ UNCHANGED <<optVars, exitCode, calls, config, sinceDate, jsonlFiles,
                 discoveryErrors, fileIdx, linesRead, processedFiles, skippedLines,
                 skippedFiles, skippedMissingFields, yielded, opened, fileStream, rl,
                 sentBatches, sentRecords,
                 permanentlyFailedBatches, totalRetryAttempts, failedBatchDetails,
                 handed, delays, engineVars, asideVars>>

\* one iteration of the sending loop up to its await sendBatch(...)
StartBatch ==
  /\ pc = "batch"
  /\ LET batchNumber == (i \div batchSize) + 1
         batch == Slice(allRecords, i, i + batchSize)
         payload == createOtlpPayload(batch, payloadOptions(config))
     IN handed' = Append(handed, [batchNumber |-> batchNumber, batch |-> batch,
                                  payload |-> payload])
  /\ Called("sendBatch")
  /\ EngineStart(maxRetriesOfBackfill)
  /\ pc' = "sending"
  /\ UNCHANGED <<optVars, exitCode, config, sinceDate, jsonlFiles, discoveryErrors,
                 streamVars, stats, samplePayload, i, sentBatches, sentRecords,
                 permanentlyFailedBatches, totalRetryAttempts, failedBatchDetails,
                 delays, asideVars>>

\* mutant: a delivered batch counts as a full one
recordsSentBy_fullBatch(batch) == batchSize

\* sentRecords += batch.length
recordsSentBy(batch) == Len(batch)

\* retriedBatches = totalRetryAttempts - totalBatches, the number shown as
\* "Total retry attempts"
retriedBatches(attempts, totalBatches) == attempts - totalBatches

\* sendBatch has returned: the counters, then the delay or the end of the loop
FinishBatch ==
  /\ pc = "sending"
  /\ epc = "done"
  /\ LET current == handed[Len(handed)] IN
     /\ totalRetryAttempts' = totalRetryAttempts + retryResult.attempts
     /\ IF retryResult.success
        THEN /\ sentBatches' = sentBatches + 1
             /\ sentRecords' = sentRecords + recordsSentBy(current.batch)
             /\ UNCHANGED <<permanentlyFailedBatches, failedBatchDetails>>
        ELSE /\ permanentlyFailedBatches' = permanentlyFailedBatches + 1
             /\ failedBatchDetails' =
                  Append(failedBatchDetails,
                         [batchNumber |-> current.batchNumber,
                          error |-> IF Falsy(Member(retryResult, "error"))
                                    THEN UnknownError
                                    ELSE retryResult.error])
             /\ UNCHANGED <<sentBatches, sentRecords>>
  /\ IF delayDue(i, batchSize, Len(allRecords))
     THEN pc' = "delay" /\ UNCHANGED i
     ELSE LoopTest(i + batchSize)
  /\ handed' = [handed EXCEPT ![Len(handed)] =
                  [batchNumber |-> @.batchNumber, batch |-> @.batch,
                   payload |-> @.payload, result |-> retryResult]]
  /\ EngineReturn
  /\ UNCHANGED <<optVars, exitCode, calls, config, sinceDate, jsonlFiles,
                 discoveryErrors, streamVars, stats, samplePayload, delays,
                 asideVars>>

\* await sleep(delay), then i += batchSize
InterBatchDelay ==
  /\ pc = "delay"
  /\ Called("sleep")
  /\ delays' = Append(delays, delay)
  /\ LoopTest(i + batchSize)
  /\ UNCHANGED <<optVars, exitCode, config, sinceDate, jsonlFiles, discoveryErrors,
                 streamVars, stats, samplePayload, sentBatches, sentRecords,
                 permanentlyFailedBatches, totalRetryAttempts, failedBatchDetails,
                 handed, engineVars, asideVars>>

\* the locals of backfillCommand before it has run
CommandLocalsInit ==
  /\ exitCode = NoExit
  /\ calls = NoCalls
  /\ config = Null
  /\ sinceDate = Null
  /\ jsonlFiles = <<>>
  /\ discoveryErrors = <<>>
  /\ fileIdx = 1
  /\ linesRead = 0
  /\ allRecords = <<>>
  /\ processedFiles = 0
  /\ skippedLines = 0
  /\ skippedFiles = 0
  /\ skippedMissingFields = 0
  /\ stats = NoStats
  /\ samplePayload = NoPayload
  /\ i = 0
  /\ sentBatches = 0
  /\ sentRecords = 0
  /\ permanentlyFailedBatches = 0
  /\ totalRetryAttempts = 0
  /\ failedBatchDetails = <<>>
  /\ yielded = <<>>
  /\ opened = <<>>
  /\ fileStream = "none"
  /\ rl = "none"
  /\ handed = <<>>
  /\ delays = <<>>

\* backfillCommand is not running
CommandIdle ==
  /\ pc = "idle"
  /\ since = Undefined
  /\ dryRun = FALSE
  /\ batchSize = defaultBatchSize
  /\ delay = defaultDelay
  /\ verbose = FALSE
  /\ CommandLocalsInit

Init ==
  /\ pc = "loadConfig"
  /\ \E o \in OptionChoices :
       /\ since = o.since
       /\ dryRun = o.dryRun
       /\ batchSize = o.batchSize
       /\ verbose = o.verbose
  /\ delay \in DelayChoices
  /\ CommandLocalsInit
  /\ EngineIdle
  /\ ProbeIdle

Next ==
  \/ LoadConfig
  \/ ParseSince
  \/ Discover
  \/ OpenFile
  \/ ReadLine
  \/ EndOfFile
  \/ StreamError
  \/ Summary
  \/ StartBatch
  \/ Attempt /\ UNCHANGED <<asideVars, cmdVars>>
  \/ Backoff /\ UNCHANGED <<asideVars, cmdVars>>
  \/ FinishBatch
  \/ InterBatchDelay

Spec == Init /\ [][Next]_vars

\* backfillCommand is one sequential async function: whenever it can take a
\* step it takes one, every await (configuration, discovery, a line of a file,
\* a delivery call, a sleep) being settled in the end
FairSpec == Init /\ [][Next]_vars /\ WF_vars(Next)

(***************************************************************************)
(* The engine on its own: sendBatchWithRetry(_, _, _, maxRetries, _).      *)
(***************************************************************************)
InitRetry ==
  /\ \E n \in 0..MaxRetriesBound :
       /\ maxRetries = n
       /\ IF 0 < n
          THEN epc = "try" /\ retryResult = NoResult
          ELSE epc = "done" /\ retryResult = [success |-> FALSE, attempts |-> n]
  /\ attempt = 0
  /\ errorMsg = <<>>
  /\ elapsed = 0
  /\ deliveryCalls = 0
  /\ backoffs = <<>>
  /\ lastResponse = NoResponse
  /\ retryableFailures = 0
  /\ ProbeIdle
  /\ CommandIdle

NextRetry ==
  \/ Attempt /\ UNCHANGED <<asideVars, cmdVars>>
  \/ Backoff /\ UNCHANGED <<asideVars, cmdVars>>

SpecRetry == InitRetry /\ [][NextRetry]_vars

(***************************************************************************)
(* isRetryableError on its own, over messages built around the prefix.     *)
(***************************************************************************)
\* "OTLP request failed:" without the trailing space
PrefixNoSpace ==
  <<"O", "T", "L", "P", " ", "r", "e", "q", "u", "e", "s", "t", " ",
    "f", "a", "i", "l", "e", "d", ":">>

TailChars == {"0", "2", "3", "4", "5", "9", "x"}

RECURSIVE SeqsUpTo(_, _)
SeqsUpTo(S, n) ==
  IF n = 0 THEN {<<>>}
  ELSE LET shorter == SeqsUpTo(S, n - 1)
       IN shorter \cup {Append(s, c) : s \in {t \in shorter : Len(t) = n - 1}, c \in S}

ProbeMessages ==
  {lead \o prefix \o tail \o trail :
     lead \in {<<>>, <<"x">>},
     prefix \in {OtlpPrefix, PrefixNoSpace, <<>>},
     tail \in SeqsUpTo(TailChars, MaxTailLen),
     trail \in {<<>>, <<" ">> \o OtlpPrefix \o <<"4", "0", "4">>}}

InitClassify ==
  /\ probeMsg \in ProbeMessages
  /\ probeVerdict = NoVerdict
  /\ NoCall
  /\ GenIdle
  /\ EngineIdle
  /\ CommandIdle

Classify ==
  /\ probeVerdict = NoVerdict
  /\ probeVerdict' = <<isRetryableError(probeMsg)>>
  /\ UNCHANGED <<probeMsg, probeIn, probeOut, genVars>>
  /\ UNCHANGED <<engineVars, cmdVars>>

NextClassify == Classify

SpecClassify == InitClassify /\ [][NextClassify]_vars

(***************************************************************************)
(* parseJsonlLine on its own.                                              *)
(***************************************************************************)
\* a member that the object does not have
Absent == <<"<absent>">>

\* the object with the member k of value v, if v is given
With(k, v) == IF v = Absent THEN <<>> ELSE (k :> v)

TsCutoff == <<"2", "0", "2", "4", "-", "0", "1", "-", "1", "2">>

\* the usage objects of the probe
ProbeUsages ==
  << <<>>,
     [input_tokens |-> 0, output_tokens |-> 0],
     [input_tokens |-> 5],
     [cache_read_input_tokens |-> 3, cache_creation_input_tokens |-> 4],
     [input_tokens |-> 100, output_tokens |-> 50, cache_read_input_tokens |-> 0,
      cache_creation_input_tokens |-> 0] >>

\* the message objects of the probe: with or without a model, with or without
\* a usage object
ProbeMessageObjects ==
  {With("model", mo) : mo \in {Absent, <<>>, <<"m">>}}
  \cup {With("model", mo) @@ ("usage" :> ProbeUsages[u]) :
          mo \in {Absent, <<>>, <<"m">>}, u \in 1..Len(ProbeUsages)}

\* the objects of the probe without a message member
ProbeHeads ==
  {(IF ty = "" THEN <<>> ELSE ("type" :> ty))
     @@ With("sessionId", sid) @@ With("timestamp", ts) :
     ty \in {"", "user", "assistant"},
     sid \in {Absent, <<>>, <<"a">>},
     ts \in {Absent, <<>>, <<"x">>, TsEarly, TsCutoff, TsLate}}

ProbeObjects ==
  ProbeHeads \cup {h @@ ("message" :> msg) : h \in ProbeHeads, msg \in ProbeMessageObjects}

ProbeLines ==
  {TextLine(s) : s \in {<<>>, <<" ">>, <<"\t", " ">>, <<"x", "{">>,
                        <<"n", "u", "l", "l">>, <<" ", "n", "u", "l", "l", " ">>,
                        <<"7">>, <<"0", "7">>, <<"t", "r", "u", "e">>}}
  \cup {JsonLine([t |-> "string"]), JsonLine([t |-> "array"])}
  \cup {JsonLine(JsonObject(o)) : o \in ProbeObjects}

ProbeCutoffs == {Null, DateParse(TsCutoff)}

InitParse ==
  /\ probeIn \in [line : ProbeLines, cutoff : ProbeCutoffs]
  /\ probeOut = <<>>
  /\ probeMsg = <<>>
  /\ probeVerdict = NoVerdict
  /\ GenIdle
  /\ EngineIdle
  /\ CommandIdle

ParseLine ==
  /\ probeOut = <<>>
  /\ probeOut' = <<parseJsonlLine(probeIn.line, probeIn.cutoff)>>
  /\ UNCHANGED <<probeIn, probeMsg, probeVerdict, genVars, engineVars, cmdVars>>

NextParse == ParseLine

SpecParse == InitParse /\ [][NextParse]_vars

(***************************************************************************)
(* streamJsonlRecords on its own: the generator and any consumer of it.    *)
(* probeIn holds its arguments; gpc is the state of the generator object   *)
(* ("suspendedStart": created, body not yet run; "running": inside the     *)
(* for-await; "suspendedYield": stopped at the yield; "completed"), genYields *)
(* what it has yielded, genEnd how it ended.                               *)
(***************************************************************************)
StreamFiles == {<<"a", ".", "j", "s", "o", "n", "l">>}

streamRestVars ==
  <<optVars, pc, exitCode, calls, config, sinceDate, jsonlFiles, discoveryErrors,
    fileIdx, allRecords, processedFiles, skippedLines, skippedFiles,
    skippedMissingFields, yielded, opened, stats, samplePayload, sendVars,
    engineVars, probeVars>>

InitStream ==
  /\ probeIn \in [filePath : StreamFiles, sinceDate : ProbeCutoffs]
  /\ probeOut = <<>>
  /\ probeMsg = <<>>
  /\ probeVerdict = NoVerdict
  /\ gpc = "suspendedStart"
  /\ genYields = <<>>
  /\ genEnd = ""
  /\ EngineIdle
  /\ CommandIdle

\* next() of the consumer: the first one runs the body up to the for-await
\* (createReadStream, createInterface), a later one resumes after the yield
ConsumerNext ==
  /\ gpc \in {"suspendedStart", "suspendedYield"}
  /\ gpc' = "running"
  /\ IF gpc = "suspendedStart" THEN acquire ELSE UNCHANGED <<fileStream, rl>>
  /\ UNCHANGED <<genYields, genEnd, linesRead, streamRestVars>>

\* one turn of the for-await: a line is read and handed to parseJsonlLine; a
\* record, parse error or missing-fields result is yielded, a skip is not, and
\* an exception leaves the loop through the finally block
GenReadLine ==
  /\ gpc = "running"
  /\ linesRead < MaxLines
  /\ linesRead' = linesRead + 1
  /\ \E k \in 1..Len(LineList) :
       LET result == parseJsonlLine(LineList[k], probeIn.sinceDate) IN
       IF result.tag = "throw"
       THEN /\ finallyBlock("threw")
            /\ gpc' = "completed"
            /\ genEnd' = "threw"
            /\ UNCHANGED genYields
       ELSE /\ UNCHANGED <<fileStream, rl, genEnd>>
            /\ IF result.tag \in {"record", "parseError", "missingFields"}
               THEN gpc' = "suspendedYield" /\ genYields' = Append(genYields, result)
               ELSE UNCHANGED <<gpc, genYields>>
  /\ UNCHANGED streamRestVars

\* the line reader has no more lines: the loop ends, then the finally block
GenEndOfInput ==
  /\ gpc = "running"
  /\ finallyBlock("done")
  /\ gpc' = "completed"
  /\ genEnd' = "done"
  /\ UNCHANGED <<genYields, linesRead, streamRestVars>>

\* reading fails (the line reader's iterator rejects): the finally block runs
\* and the exception reaches the consumer
GenReadError ==
  /\ gpc = "running"
  /\ finallyBlock("threw")
  /\ gpc' = "completed"
  /\ genEnd' = "threw"
  /\ UNCHANGED <<genYields, linesRead, streamRestVars>>

\* return() of the consumer (a break out of its for-await): a generator
\* stopped at the yield runs its finally block; one whose body never ran has
\* opened nothing and just completes
ConsumerReturn ==
  /\ gpc \in {"suspendedStart", "suspendedYield"}
  /\ gpc' = "completed"
  /\ genEnd' = "returned"
  /\ IF gpc = "suspendedYield" THEN finallyBlock("returned")
     ELSE UNCHANGED <<fileStream, rl>>
  /\ UNCHANGED <<genYields, linesRead, streamRestVars>>

NextStream ==
  \/ ConsumerNext
  \/ GenReadLine
  \/ GenEndOfInput
  \/ GenReadError
  \/ ConsumerReturn

SpecStream == InitStream /\ [][NextStream]_vars

(***************************************************************************)
(* findJsonlFiles on its own.  A directory is what readdir makes of it:    *)
(* either a list of entries, in the order readdir returns them, or a       *)
(* failure with a message.  An entry is a regular file, a subdirectory     *)
(* (with its own directory) or something else (a symbolic link, a socket). *)
(***************************************************************************)
JsonlSuffix == <<".", "j", "s", "o", "n", "l">>

endsWith(s, suffix) ==
  /\ Len(s) >= Len(suffix)
  /\ SubSeq(s, Len(s) - Len(suffix) + 1, Len(s)) = suffix

\* path.join(dir, name) for a plain entry name
join(dir, name) == dir \o <<"/">> \o name

ReaddirMessage == <<"E", "A", "C", "C", "E", "S">>

Unreadable == [readable |-> FALSE, message |-> ReaddirMessage]

Readable(entries) == [readable |-> TRUE, entries |-> entries]

FileEntry(name) == [name |-> name, kind |-> "file"]

OtherEntry(name) == [name |-> name, kind |-> "other"]

DirEntry(name, node) == [name |-> name, kind |-> "dir", node |-> node]

JsonlName == <<"a">> \o JsonlSuffix

FileNames == {JsonlName, <<"b", ".", "t", "x", "t">>}

DirNames == {<<"d">>, <<"e">>}

\* what an entry of that name can be; a subdirectory named d holds one of the
\* directories of deep, one named e one of shallow
EntriesNamed(name, deep, shallow) ==
  IF name = <<"d">> THEN {DirEntry(name, n) : n \in deep}
  ELSE IF name = <<"e">> THEN {DirEntry(name, n) : n \in shallow}
  ELSE IF name = JsonlName THEN {FileEntry(name), OtherEntry(name)}
  ELSE {FileEntry(name)}

\* the orders in which at most MaxDirEntries distinct names can be listed
NameListings(names) ==
  {s \in UNION {[1..k -> names] : k \in 0..MaxDirEntries} :
     \A a, b \in 1..Len(s) : a # b => s[a] # s[b]}

\* the listings whose entries have the names ns, in that order
RECURSIVE Listings(_, _, _)
Listings(ns, deep, shallow) ==
  IF ns = <<>> THEN {<<>>}
  ELSE {<<e>> \o rest : e \in EntriesNamed(Head(ns), deep, shallow),
                         rest \in Listings(Tail(ns), deep, shallow)}

DirsOver(names, deep, shallow) ==
  {Unreadable}
  \cup {Readable(s) : s \in UNION {Listings(ns, deep, shallow) :
                                      ns \in NameListings(names)}}

LeafDirs == DirsOver(FileNames, {}, {})

MidDirs == DirsOver(FileNames \cup {<<"d">>}, LeafDirs, {})

RootDirs == DirsOver(FileNames \cup DirNames, MidDirs, LeafDirs)

RootPath == <<"/", "r">>

\* mutant: every entry named *.jsonl is taken, whatever it is
isJsonlEntry_anyKind(entry) == endsWith(entry.name, JsonlSuffix)

\* entry.isFile() && entry.name.endsWith(".jsonl")
isJsonlEntry(entry) == entry.kind = "file" /\ endsWith(entry.name, JsonlSuffix)

\* findJsonlFiles(dir, errors), node being what readdir(dir) gives; scanEntries
\* is its for loop.  The errors array is shared with the recursive calls.
RECURSIVE findJsonlFiles(_, _, _)
RECURSIVE scanEntries(_, _, _, _)
scanEntries(dir, entries, files, errors) ==
  IF entries = <<>> THEN [files |-> files, errors |-> errors]
  ELSE LET entry == Head(entries)
           fullPath == join(dir, entry.name)
       IN IF entry.kind = "dir"
          THEN LET result == findJsonlFiles(fullPath, entry.node, errors)
               IN scanEntries(dir, Tail(entries), files \o result.files, result.errors)
          ELSE IF isJsonlEntry(entry)
          THEN scanEntries(dir, Tail(entries), Append(files, fullPath), errors)
          ELSE scanEntries(dir, Tail(entries), files, errors)

findJsonlFiles(dir, node, errors) ==
  IF node.readable
  THEN scanEntries(dir, node.entries, <<>>, errors)
  ELSE [files |-> <<>>,
        errors |-> Append(errors, dir \o <<":", " ">> \o node.message)]

InitFind ==
  /\ probeIn \in [dir : {RootPath}, node : RootDirs]
  /\ probeOut = <<>>
  /\ probeMsg = <<>>
  /\ probeVerdict = NoVerdict
  /\ GenIdle
  /\ EngineIdle
  /\ CommandIdle

FindFiles ==
  /\ probeOut = <<>>
  /\ probeOut' = <<findJsonlFiles(probeIn.dir, probeIn.node, <<>>)>>
  /\ UNCHANGED <<probeIn, probeMsg, probeVerdict, genVars, engineVars, cmdVars>>

NextFind == FindFiles

SpecFind == InitFind /\ [][NextFind]_vars


(***************************************************************************)
(* calculateStatistics on its own: every list of at most MaxStatRecords    *)
(* records as parseJsonlLine builds them (a timestamp Date can parse).     *)
(***************************************************************************)
StatRecords ==
  [sessionId : {<<"a">>}, timestamp : {TsEarly, TsCutoff, TsLate}, model : {<<"m">>},
   inputTokens : {1, 2}, outputTokens : {0, 3}, cacheReadTokens : {0, 7},
   cacheCreationTokens : {1}]

InitStats ==
  /\ probeIn \in [records : UNION {[1..n -> StatRecords] : n \in 0..MaxStatRecords}]
  /\ probeOut = <<>>
  /\ probeMsg = <<>>
  /\ probeVerdict = NoVerdict
  /\ GenIdle
  /\ EngineIdle
  /\ CommandIdle

Statistics ==
  /\ probeOut = <<>>
  /\ probeOut' = <<calculateStatistics(probeIn.records)>>
  /\ UNCHANGED <<probeIn, probeMsg, probeVerdict, genVars, engineVars, cmdVars>>

NextStats == Statistics

SpecStats == InitStats /\ [][NextStats]_vars


(***************************************************************************)
(* createOtlpPayload on its own: every list of at most MaxPayloadRecords   *)
(* records, timestamps that Date cannot parse included, under every        *)
(* choice of payload options.                                              *)
(***************************************************************************)
PayloadRecords ==
  [sessionId : {<<"a">>, <<"b">>}, timestamp : {TsEarly, TsLate, <<"x">>, <<>>},
   model : {<<"m">>}, inputTokens : {1}, outputTokens : {0}, cacheReadTokens : {0},
   cacheCreationTokens : {2}]

PayloadOptionChoices ==
  [costMultiplier : {0, defaultCostMultiplier},
   email : {Undefined, <<>>, <<"u">>},
   organizationId : {Undefined, <<"o">>},
   productId : {Undefined, <<"p">>}]

InitPayload ==
  /\ probeIn \in [records : UNION {[1..n -> PayloadRecords] : n \in 0..MaxPayloadRecords},
                  options : PayloadOptionChoices]
  /\ probeOut = <<>>
  /\ probeMsg = <<>>
  /\ probeVerdict = NoVerdict
  /\ GenIdle
  /\ EngineIdle
  /\ CommandIdle

BuildPayload ==
  /\ probeOut = <<>>
  /\ probeOut' = <<createOtlpPayload(probeIn.records, probeIn.options)>>
  /\ UNCHANGED <<probeIn, probeMsg, probeVerdict, genVars, engineVars, cmdVars>>

NextPayload == BuildPayload

SpecPayload == InitPayload /\ [][NextPayload]_vars


(***************************************************************************)
(* The transaction id on its own: a record goes into one payload, behind   *)
(* the records of probeIn.before and under the options optionsA; a record  *)
(* that is equal to it, or differs from it in one field, goes into another *)
(* payload under optionsB.  probeOut holds the two transaction_id          *)
(* attributes.  The SHA-256 digest is kept as the text it is the digest    *)
(* of: two ids are equal exactly when the joined texts are.                *)
(***************************************************************************)
TxnFields ==
  {"sessionId", "timestamp", "model", "inputTokens", "outputTokens",
   "cacheReadTokens", "cacheCreationTokens"}

TxnRecords ==
  [sessionId : {<<"a">>, <<"a", "|", "b">>}, timestamp : {TsEarly, TsLate},
   model : {<<"m">>, <<"b", "|", "m">>}, inputTokens : {1, 12},
   outputTokens : {0, 2}, cacheReadTokens : {0, 20}, cacheCreationTokens : {0, 1}]

TxnOptions ==
  {[costMultiplier |-> defaultCostMultiplier, email |-> Undefined,
    organizationId |-> Undefined, productId |-> Undefined],
   [costMultiplier |-> 0, email |-> <<"u">>, organizationId |-> <<"o">>,
    productId |-> <<"p">>]}

DifferingFields(a, b) == {f \in TxnFields : a[f] # b[f]}

\* the transaction_id attribute of the last log record of a payload
transactionIdOfLast(payload) ==
  LET logs == logRecordsIn(payload) IN logs[Len(logs)].attributes[1].value.stringValue

InitTxn ==
  /\ probeIn \in {p \in [a : TxnRecords, b : TxnRecords,
                         before : {<<>>} \cup {<<r>> : r \in {x \in TxnRecords :
                                     x.sessionId = <<"a">> /\ x.model = <<"m">>
                                     /\ x.inputTokens = 1 /\ x.outputTokens = 0
                                     /\ x.cacheReadTokens = 0}},
                         optionsA : TxnOptions, optionsB : TxnOptions] :
                    Cardinality(DifferingFields(p.a, p.b)) <= 1}
  /\ probeOut = <<>>
  /\ probeMsg = <<>>
  /\ probeVerdict = NoVerdict
  /\ GenIdle
  /\ EngineIdle
  /\ CommandIdle

ComputeIds ==
  /\ probeOut = <<>>
  /\ probeOut' =
       << transactionIdOfLast(createOtlpPayload(probeIn.before \o <<probeIn.a>>,
                                                probeIn.optionsA)),
          transactionIdOfLast(createOtlpPayload(<<probeIn.b>>, probeIn.optionsB)) >>
  /\ UNCHANGED <<probeIn, probeMsg, probeVerdict, genVars, engineVars, cmdVars>>

NextTxn == ComputeIds

SpecTxn == InitTxn /\ [][NextTxn]_vars


(***************************************************************************)
(* generateTransactionId down to the digest: createHash(sha256),         *)
(* update(input), digest(hex), substring(0, 32).  SHA-256 is computed    *)
(* as FIPS 180-4 defines it, one compression round per step; a 32-bit word *)
(* is the pair of its 16-bit halves <<high, low>>.  probeIn holds the      *)
(* components, probeOut the Hash object and, at the end, the id.           *)
(***************************************************************************)
\* the printable ASCII characters, from the space (code 32) on; the quote, the
\* backslash and the backquote, which no field of the model holds, keep their
\* places under a name
Ascii ==
  << " ", "!", "<34>", "#", "$", "%", "&", "'", "(", ")", "*", "+",
     ",", "-", ".", "/", "0", "1", "2", "3", "4", "5", "6", "7",
     "8", "9", ":", ";", "<", "=", ">", "?", "@", "A", "B", "C",
     "D", "E", "F", "G", "H", "I", "J", "K", "L", "M", "N", "O",
     "P", "Q", "R", "S", "T", "U", "V", "W", "X", "Y", "Z", "[",
     "<92>", "]", "^", "_", "<96>", "a", "b", "c", "d", "e", "f", "g",
     "h", "i", "j", "k", "l", "m", "n", "o", "p", "q", "r", "s",
     "t", "u", "v", "w", "x", "y", "z", "{", "|", "}", "~" >>

\* the UTF-8 byte of an ASCII character
CharCode(c) == 31 + CHOOSE k \in 1..Len(Ascii) : Ascii[k] = c

HexDigits == <<"0", "1", "2", "3", "4", "5", "6", "7", "8", "9",
               "a", "b", "c", "d", "e", "f">>

RECURSIVE Xor16(_, _, _)
Xor16(a, b, n) ==
  IF n = 0 THEN 0
  ELSE (((a % 2) + (b % 2)) % 2) + 2 * Xor16(a \div 2, b \div 2, n - 1)

RECURSIVE And16(_, _, _)
And16(a, b, n) ==
  IF n = 0 THEN 0
  ELSE ((a % 2) * (b % 2)) + 2 * And16(a \div 2, b \div 2, n - 1)

Xor(x, y) == <<Xor16(x[1], y[1], 16), Xor16(x[2], y[2], 16)>>

And(x, y) == <<And16(x[1], y[1], 16), And16(x[2], y[2], 16)>>

Not(x) == <<65535 - x[1], 65535 - x[2]>>

\* addition modulo 2^32
Add(x, y) ==
  LET low == x[2] + y[2]
      high == x[1] + y[1] + (low \div 65536)
  IN <<high % 65536, low % 65536>>

\* SHR^n for n < 16
Shr(x, n) ==
  <<x[1] \div (2 ^ n), (x[2] \div (2 ^ n)) + (x[1] % (2 ^ n)) * (2 ^ (16 - n))>>

\* ROTR^n for n < 32
Rotr(x, n) ==
  LET y == IF n >= 16 THEN <<x[2], x[1]>> ELSE x
      m == IF n >= 16 THEN n - 16 ELSE n
  IN <<(y[1] \div (2 ^ m)) + (y[2] % (2 ^ m)) * (2 ^ (16 - m)),
       (y[2] \div (2 ^ m)) + (y[1] % (2 ^ m)) * (2 ^ (16 - m))>>

Ch(x, y, z) == Xor(And(x, y), And(Not(x), z))

Maj(x, y, z) == Xor(Xor(And(x, y), And(x, z)), And(y, z))

BigSigma0(x) == Xor(Xor(Rotr(x, 2), Rotr(x, 13)), Rotr(x, 22))

BigSigma1(x) == Xor(Xor(Rotr(x, 6), Rotr(x, 11)), Rotr(x, 25))

SmallSigma0(x) == Xor(Xor(Rotr(x, 7), Rotr(x, 18)), Shr(x, 3))

SmallSigma1(x) == Xor(Xor(Rotr(x, 17), Rotr(x, 19)), Shr(x, 10))

\* the round constants K and the initial hash value H(0) of SHA-256
Sha256K ==
  <<
     <<17034, 12184>>, <<28983, 17553>>, <<46528, 64463>>, <<59829, 56229>>,
     <<14678, 49755>>, <<23025, 4593>>, <<37439, 33444>>, <<43804, 24277>>,
     <<55303, 43672>>, <<4739, 23297>>, <<9265, 34238>>, <<21772, 32195>>,
     <<29374, 23924>>, <<32990, 45566>>, <<39900, 1703>>, <<49563, 61812>>,
     <<58523, 27073>>, <<61374, 18310>>, <<4033, 40390>>, <<9228, 41420>>,
     <<11753, 11375>>, <<19060, 33962>>, <<23728, 43484>>, <<30457, 35034>>,
     <<38974, 20818>>, <<43057, 50797>>, <<45059, 10184>>, <<48985, 32711>>,
     <<50912, 3059>>, <<54695, 37191>>, <<1738, 25425>>, <<5161, 10599>>,
     <<10167, 2693>>, <<11803, 8504>>, <<19756, 28156>>, <<21304, 3347>>,
     <<25866, 29524>>, <<30314, 2747>>, <<33218, 51502>>, <<37490, 11397>>,
     <<41663, 59553>>, <<43034, 26187>>, <<49739, 35696>>, <<51052, 20899>>,
     <<53650, 59417>>, <<54937, 1572>>, <<62478, 13701>>, <<4202, 41072>>,
     <<6564, 49430>>, <<7735, 27656>>, <<10056, 30540>>, <<13488, 48309>>,
     <<14620, 3251>>, <<20184, 43594>>, <<23452, 51791>>, <<26670, 28659>>,
     <<29839, 33518>>, <<30885, 25455>>, <<33992, 30740>>, <<36039, 520>>,
     <<37054, 65530>>, <<42064, 27883>>, <<48889, 41975>>, <<50801, 30962>> >>

Sha256H0 ==
  <<
     <<27145, 58983>>, <<47975, 44677>>, <<15470, 62322>>, <<42319, 62778>>,
     <<20750, 21119>>, <<39685, 26764>>, <<8067, 55723>>, <<23520, 52505>> >>

\* the message, padded: the bytes, 0x80, zeros, and the length in bits as a
\* 64-bit number (messages are shorter than 8192 bytes here)
PaddedBytes(text) ==
  LET n == Len(text)
      zeros == (119 - (n % 64)) % 64
  IN [k \in 1..n |-> CharCode(text[k])] \o <<128>> \o [k \in 1..zeros |-> 0]
     \o <<0, 0, 0, 0, 0, 0, (8 * n) \div 256, (8 * n) % 256>>

\* the 16 words of the b-th 512-bit block of the padded message
BlockWords(bytes, b) ==
  [k \in 1..16 |->
     LET at == 64 * (b - 1) + 4 * (k - 1)
     IN <<256 * bytes[at + 1] + bytes[at + 2], 256 * bytes[at + 3] + bytes[at + 4]>>]

\* the lowercase hex digits of a word
WordHex(x) ==
  <<HexDigits[(x[1] \div 4096) + 1], HexDigits[((x[1] \div 256) % 16) + 1],
    HexDigits[((x[1] \div 16) % 16) + 1], HexDigits[(x[1] % 16) + 1],
    HexDigits[(x[2] \div 4096) + 1], HexDigits[((x[2] \div 256) % 16) + 1],
    HexDigits[((x[2] \div 16) % 16) + 1], HexDigits[(x[2] % 16) + 1]>>

\* digest(hex) of the final hash value
DigestHex(h) ==
  WordHex(h[1]) \o WordHex(h[2]) \o WordHex(h[3]) \o WordHex(h[4])
  \o WordHex(h[5]) \o WordHex(h[6]) \o WordHex(h[7]) \o WordHex(h[8])

\* the components of the test vector of tests/unit/hashing.test.ts
TestVector ==
  [sessionId |-> <<"5", "3", "4", "5", "4", "7", "7", "c", "-", "2", "6", "d", "e",
                   "-", "4", "6", "e", "d", "-", "8", "e", "b", "1", "-", "d", "1",
                   "d", "e", "e", "a", "0", "e", "e", "6", "1", "f">>,
   timestamp |-> <<"2", "0", "2", "6", "-", "0", "1", "-", "1", "3", "T", "1", "5",
                   ":", "1", "5", ":", "0", "9", ".", "7", "9", "0", "Z">>,
   model |-> <<"c", "l", "a", "u", "d", "e", "-", "o", "p", "u", "s", "-", "4", "-",
               "5", "-", "2", "0", "2", "5", "1", "1", "0", "1">>,
   inputTokens |-> 100, outputTokens |-> 50, cacheReadTokens |-> 1000,
   cacheCreationTokens |-> 500]

\* a record as parseJsonlLine builds it from the lines of the model
ShortComponents ==
  [sessionId |-> <<"a">>, timestamp |-> TsLate, model |-> <<"m">>,
   inputTokens |-> 1, outputTokens |-> 0, cacheReadTokens |-> 0,
   cacheCreationTokens |-> 2]

InitHash ==
  /\ probeIn \in {[components |-> c] : c \in {TestVector, ShortComponents}}
  /\ probeOut = <<>>
  /\ probeMsg = <<>>
  /\ probeVerdict = NoVerdict
  /\ GenIdle
  /\ EngineIdle
  /\ CommandIdle

\* createHash(sha256).update(input)
HashUpdate ==
  /\ probeOut = <<>>
  /\ LET id == generateTransactionId(probeIn.components)
         bytes == PaddedBytes(id.sha256)
     IN probeOut' = << [phase |-> "rounds", bytes |-> bytes, block |-> 1, t |-> 0,
                        w |-> BlockWords(bytes, 1), v |-> Sha256H0, h |-> Sha256H0] >>
  /\ UNCHANGED <<probeIn, probeMsg, probeVerdict, genVars, engineVars, cmdVars>>

\* one round of the compression function
HashRound ==
  /\ probeOut # <<>>
  /\ probeOut[1].phase = "rounds"
  /\ probeOut[1].t < 64
  /\ LET s == probeOut[1]
         t == s.t + 1
         w == IF t <= 16 THEN s.w
              ELSE Append(s.w, Add(Add(SmallSigma1(s.w[t - 2]), s.w[t - 7]),
                                   Add(SmallSigma0(s.w[t - 15]), s.w[t - 16])))
         a == s.v[1]
         e == s.v[5]
         T1 == Add(Add(Add(s.v[8], BigSigma1(e)), Add(Ch(e, s.v[6], s.v[7]), Sha256K[t])),
                   w[t])
         T2 == Add(BigSigma0(a), Maj(a, s.v[2], s.v[3]))
     IN probeOut' = << [s EXCEPT !.t = t, !.w = w,
                                 !.v = <<Add(T1, T2), a, s.v[2], s.v[3],
                                         Add(s.v[4], T1), e, s.v[6], s.v[7]>>] >>
  /\ UNCHANGED <<probeIn, probeMsg, probeVerdict, genVars, engineVars, cmdVars>>

\* the end of a block: the working variables are added to the hash value
HashBlockEnd ==
  /\ probeOut # <<>>
  /\ probeOut[1].phase = "rounds"
  /\ probeOut[1].t = 64
  /\ LET s == probeOut[1]
         h == [k \in 1..8 |-> Add(s.h[k], s.v[k])]
     IN probeOut' =
          IF 64 * s.block < Len(s.bytes)
          THEN << [s EXCEPT !.block = s.block + 1, !.t = 0,
                            !.w = BlockWords(s.bytes, s.block + 1), !.v = h, !.h = h] >>
          ELSE << [phase |-> "digest", h |-> h] >>
  /\ UNCHANGED <<probeIn, probeMsg, probeVerdict, genVars, engineVars, cmdVars>>

\* .digest(hex).substring(0, 32)
HashDigest ==
  /\ probeOut # <<>>
  /\ probeOut[1].phase = "digest"
  /\ probeOut' =
       << [phase |-> "returned",
           digest |-> DigestHex(probeOut[1].h),
           id |-> SubSeq(DigestHex(probeOut[1].h), 1,
                         generateTransactionId(probeIn.components).hexDigits)] >>
  /\ UNCHANGED <<probeIn, probeMsg, probeVerdict, genVars, engineVars, cmdVars>>

NextHash ==
  \/ HashUpdate
  \/ HashRound
  \/ HashBlockEnd
  \/ HashDigest

SpecHash == InitHash /\ [][NextHash]_vars


(***************************************************************************)
(* The cost multiplier on its own: the configuration loadConfig resolves   *)
(* with (an override or none, a tier or none), the multiplier resolved     *)
(* from it, and the payloads of the batches that follow.  probeOut holds   *)
(* the payloads built so far.                                              *)
(***************************************************************************)
SubscriptionTiers == {"pro", "max_5x", "max_20x", "team_premium", "enterprise", "api"}

BaseConfig == [apiKey |-> <<"k">>, endpoint |-> <<"e">>]

\* the configurations: costMultiplierOverride absent or a number (0, 0.05, 1),
\* subscriptionTier absent, empty or one of the tiers
CostConfigs ==
  {BaseConfig @@ o @@ t :
     o \in {<<>>} \cup {"costMultiplierOverride" :> x : x \in {0, 5, 100}},
     t \in {<<>>} \cup {"subscriptionTier" :> x : x \in SubscriptionTiers \cup {""}}}

CostBatches ==
  {<<r>> : r \in {ShortComponents, [ShortComponents EXCEPT !.sessionId = <<"b">>]}}
  \cup {<<ShortComponents, [ShortComponents EXCEPT !.timestamp = TsEarly]>>}

InitCost ==
  /\ probeIn \in [config : CostConfigs]
  /\ probeOut = <<>>
  /\ probeMsg = <<>>
  /\ probeVerdict = NoVerdict
  /\ GenIdle
  /\ EngineIdle
  /\ CommandIdle

\* the payload of the next batch of the run
BuildBatchPayload ==
  /\ Len(probeOut) < MaxCostBatches
  /\ \E batch \in CostBatches :
       probeOut' = Append(probeOut, createOtlpPayload(batch, payloadOptions(probeIn.config)))
  /\ UNCHANGED <<probeIn, probeMsg, probeVerdict, genVars, engineVars, cmdVars>>

NextCost == BuildBatchPayload

SpecCost == InitCost /\ [][NextCost]_vars


(***************************************************************************)
(* sanitizeErrorMessage on its own: messages around the limit of 500       *)
(* characters, among them ones that end in dots, and the messages          *)
(* sendOtlpLogs rejects with, the one of an answer with a long status text *)
(* included.  probeOut holds the sanitized message and, after a second     *)
(* pass, the result of sanitizing that.                                    *)
(***************************************************************************)
Repeat(c, n) == [k \in 1..n |-> c]

MessageLengths ==
  {0, 1} \cup ((maxLength - 3)..(maxLength + MaxOverLength)) \cup {maxLength + 100}

LongResponse == HttpResponse(503, Repeat("s", 300), Repeat("b", 250))

RawMessages ==
  {Repeat("a", n) : n \in MessageLengths}
  \cup {Repeat(".", n) : n \in MessageLengths}
  \cup {Repeat("a", n - 3) \o Ellipsis : n \in MessageLengths \ {0, 1}}
  \cup {sendOtlpLogs(r).message :
          r \in {x \in Responses \cup {LongResponse} : sendOtlpLogs(x).threw}}

InitSanitize ==
  /\ probeIn \in [rawErrorMsg : RawMessages]
  /\ probeOut = <<>>
  /\ probeMsg = <<>>
  /\ probeVerdict = NoVerdict
  /\ GenIdle
  /\ EngineIdle
  /\ CommandIdle

\* the catch clause: errorMsg = sanitizeErrorMessage(rawErrorMsg), the string
\* that goes into the result
Sanitize ==
  /\ probeOut = <<>>
  /\ probeOut' = <<sanitizeErrorMessage(probeIn.rawErrorMsg)>>
  /\ UNCHANGED <<probeIn, probeMsg, probeVerdict, genVars, engineVars, cmdVars>>

\* the sanitized message is sanitized once more
SanitizeAgain ==
  /\ Len(probeOut) = 1
  /\ probeOut' = Append(probeOut, sanitizeErrorMessage(probeOut[1]))
  /\ UNCHANGED <<probeIn, probeMsg, probeVerdict, genVars, engineVars, cmdVars>>

NextSanitize == Sanitize \/ SanitizeAgain

SpecSanitize == InitSanitize /\ [][NextSanitize]_vars


(***************************************************************************)
(* The attribution attributes of createOtlpPayload: the payload of up to   *)
(* MaxAttributedRecords records is built under every choice of email,      *)
(* organizationName, organizationId, productName and productId.            *)
(***************************************************************************)
AttributionOptions ==
  [costMultiplier : {defaultCostMultiplier},
   email : {Undefined, <<>>, <<"u">>},
   organizationName : {Undefined, <<"n">>},
   organizationId : {Undefined, <<"o">>},
   productName : {Undefined, <<"q">>},
   productId : {Undefined, <<"p">>}]

InitAttribution ==
  /\ probeIn \in [records : UNION {[1..n -> {r \in PayloadRecords : r.timestamp = TsEarly}]
                                     : n \in 1..MaxAttributedRecords},
                  options : AttributionOptions]
  /\ probeOut = <<>>
  /\ probeMsg = <<>>
  /\ probeVerdict = NoVerdict
  /\ GenIdle
  /\ EngineIdle
  /\ CommandIdle

SpecAttribution == InitAttribution /\ [][NextPayload]_vars


(***************************************************************************)
(* Claims about the delivery engine (SpecRetry).                           *)
(***************************************************************************)
\* the message the catch clause stores for a failed answer r
CaughtMessage(r) == sanitizeErrorMessage(sendOtlpLogs(r).message)

\* C1: for maxRetries >= 1, when attempt n is answered by a client error
\* (status in [400,500), not 429) the engine has returned
\* {success:false, attempts:n, error:message} at once: n delivery calls were
\* made, the n-1 backoffs are those of the earlier attempts, and the run is over.
C1_ClientErrorReturnsAtOnce ==
  (maxRetries >= 1 /\ deliveryCalls >= 1 /\ ClientError(lastResponse)) =>
    /\ epc = "done"
    /\ retryResult = [success |-> FALSE, attempts |-> deliveryCalls,
                      error |-> CaughtMessage(lastResponse)]
    /\ deliveryCalls = attempt + 1
    /\ deliveryCalls <= maxRetries
    /\ Len(backoffs) = deliveryCalls - 1

\* C1 witness: a client error at the second of at least three allowed attempts
C1_Witness ==
  /\ maxRetries >= 3
  /\ deliveryCalls = 2
  /\ ClientError(lastResponse)
  /\ epc = "done"

\* C2: for maxRetries >= 1, while every attempt made has failed with a
\* retryable error the engine goes on until maxRetries delivery calls were made,
\* and then returns {success:false, attempts:maxRetries, error:last message}.
C2_ExhaustionAfterMaxAttempts ==
  (maxRetries >= 1 /\ retryableFailures = deliveryCalls) =>
    /\ deliveryCalls <= maxRetries
    /\ (deliveryCalls < maxRetries => epc \in {"try", "backoff"} /\ retryResult = NoResult)
    /\ (deliveryCalls = maxRetries =>
          /\ epc = "done"
          /\ retryResult = [success |-> FALSE, attempts |-> maxRetries,
                            error |-> CaughtMessage(lastResponse)])

\* C2 witness: three retryable failures exhaust maxRetries = 3
C2_Witness ==
  /\ maxRetries = 3
  /\ retryableFailures = 3
  /\ deliveryCalls = 3
  /\ epc = "done"

\* C3: when attempts 1..k-1 failed with retryable errors and attempt k is
\* delivered, the engine has returned {success:true, attempts:k} without an
\* error field, after exactly k delivery calls, and the run is over.
C3_StopsAtFirstSuccess ==
  (deliveryCalls >= 1 /\ Delivered(lastResponse)) =>
    /\ retryableFailures = deliveryCalls - 1
    /\ epc = "done"
    /\ retryResult = [success |-> TRUE, attempts |-> deliveryCalls]
    /\ deliveryCalls = attempt + 1
    /\ deliveryCalls <= maxRetries

\* C3 witness: two retryable failures, then a delivery at the third attempt
C3_Witness ==
  /\ deliveryCalls = 3
  /\ retryableFailures = 2
  /\ Delivered(lastResponse)
  /\ retryResult = [success |-> TRUE, attempts |-> 3]

\* C5: a delivery call that follows the retryable failure of the attempt with
\* 0-based index i starts no earlier than 1000 * 2^i ms after that failure;
\* the waits of a run are 1000, 2000, 4000, ... in this order, one per retried
\* attempt, and none follows the failure of the last allowed attempt.
C5_ExponentialBackoff ==
  /\ (epc = "try" /\ attempt >= 1) => elapsed >= 1000 * 2^(attempt - 1)
  /\ Len(backoffs) = attempt
  /\ \A b \in 1..Len(backoffs) : backoffs[b] = 1000 * 2^(b - 1)
  /\ epc = "backoff" => attempt < maxRetries - 1
  /\ (epc = "done" /\ deliveryCalls >= 1) => Len(backoffs) = deliveryCalls - 1
  /\ Len(backoffs) <= IF maxRetries >= 1 THEN maxRetries - 1 ELSE 0

\* C5 witness: the fourth attempt is about to start, after waits of 1 s, 2 s and 4 s
C5_Witness ==
  /\ epc = "try"
  /\ attempt = 3
  /\ backoffs = <<1000, 2000, 4000>>
  /\ elapsed >= 4000

(***************************************************************************)
(* Claims about isRetryableError (SpecClassify).                           *)
(***************************************************************************)
\* the message holds, from position at on, the prefix followed by three digits
StatusAt(msg, at) ==
  /\ at + Len(OtlpPrefix) + 2 <= Len(msg)
  /\ \A k \in 1..Len(OtlpPrefix) : msg[at + k - 1] = OtlpPrefix[k]
  /\ \A k \in 0..2 : msg[at + Len(OtlpPrefix) + k] \in Digits

\* the number these three digits read as
StatusValueAt(msg, at) ==
  100 * DigitVal(msg[at + Len(OtlpPrefix)])
  + 10 * DigitVal(msg[at + Len(OtlpPrefix) + 1])
  + DigitVal(msg[at + Len(OtlpPrefix) + 2])

\* s is the embedded status of the message: the one at the leftmost position
EmbeddedStatus(msg, s) ==
  \E at \in 1..Len(msg) :
    /\ StatusAt(msg, at)
    /\ \A j \in 1..(at - 1) : ~StatusAt(msg, j)
    /\ StatusValueAt(msg, at) = s

\* C4: isRetryableError answers false exactly when the message embeds a status
\* s with 400 <= s < 500 and s # 429; so 429 and every status >= 500 (and below
\* 400) are retryable, and so is a message without any embedded status.
C4_RetryableClassification ==
  probeVerdict # NoVerdict =>
    (probeVerdict[1] = FALSE <=>
       \E s \in 400..499 : s # 429 /\ EmbeddedStatus(probeMsg, s))

\* C4 witness: a message whose prefix is not at its start, classified as not
\* retryable
C4_Witness ==
  /\ probeVerdict = <<FALSE>>
  /\ Len(probeMsg) > 0
  /\ probeMsg[1] = "x"

(***************************************************************************)
(* Claims about backfillCommand (Spec).                                    *)
(***************************************************************************)
\* the least number of batches of size b that hold n records
CeilDiv(n, b) == (n + b - 1) \div b

\* the records of the yields, in the order of the yields
RecordsOf(y) == [k \in 1..Len(y) |-> y[k].record]

RECURSIVE ConcatBatches(_)
ConcatBatches(h) == IF h = <<>> THEN <<>> ELSE h[1].batch \o ConcatBatches(Tail(h))

\* the run is over, and it was one that sends
SendingRunOver == pc = "returned" /\ ~dryRun

\* C6: a batch that fails for good (retries exhausted, or an error that is not
\* retried) never keeps the later batches from being attempted: whatever the
\* results of the batches, the delivery engine is invoked exactly once for each
\* of the ceil(N / batchSize) batches, in the order of their numbers.
C6_FailureDoesNotStopLaterBatches ==
  /\ calls.sendBatch = Len(handed)
  /\ \A k \in 1..Len(handed) : handed[k].batchNumber = k
  /\ Len(handed) <= CeilDiv(Len(allRecords), batchSize)
  /\ (~dryRun /\ pc \in {"batch", "delay"})
       => Len(handed) < CeilDiv(Len(allRecords), batchSize)
  /\ SendingRunOver
       => /\ Len(handed) = CeilDiv(Len(allRecords), batchSize)
          /\ sentBatches + permanentlyFailedBatches = Len(handed)
  /\ pc \in {"exited", "threw"} => Len(handed) = 0

\* C6 witness: the first of two batches failed for good, the second was attempted
\* and delivered
C6_Witness ==
  /\ SendingRunOver
  /\ Len(handed) = 2
  /\ permanentlyFailedBatches = 1
  /\ failedBatchDetails[1].batchNumber = 1
  /\ sentBatches = 1

\* C7: the batches handed to the delivery engine are the consecutive slices of
\* the accumulated list: ceil(N / batchSize) of them, each but the last of
\* exactly batchSize records, the last of 1 to batchSize; put end to end in the
\* order of sending they give the accumulated list, which is the records in the
\* order the streams yielded them, file after file in the order of discovery.
\* Computing the statistics leaves the order of the list as it was.
C7_BatchesAreConsecutiveSlices ==
  /\ allRecords = RecordsOf(yielded)
  /\ \A k \in 1..(Len(yielded) - 1) : yielded[k].file <= yielded[k + 1].file
  /\ \A k \in 1..Len(handed) :
       /\ handed[k].batch =
            SubSeq(RecordsOf(yielded), (k - 1) * batchSize + 1,
                   MinOf(k * batchSize, Len(yielded)))
       /\ Len(handed[k].batch) >= 1
       /\ Len(handed[k].batch) <= batchSize
       /\ k < Len(handed) => Len(handed[k].batch) = batchSize
       /\ Len(logRecordsIn(handed[k].payload)) = Len(handed[k].batch)
       /\ \A j \in 1..Len(handed[k].batch) :
            logRecordsIn(handed[k].payload)[j].attributes[1].value.stringValue
              = generateTransactionId(handed[k].batch[j])
  /\ SendingRunOver
       => /\ Len(handed) = CeilDiv(Len(yielded), batchSize)
          /\ ConcatBatches(handed) = RecordsOf(yielded)

\* C7 witness: three records from two files, the first later in time than the
\* second, sent as a batch of two and a batch of one
C7_Witness ==
  /\ SendingRunOver
  /\ Len(handed) = 2
  /\ Len(handed[1].batch) = 2
  /\ Len(handed[2].batch) = 1
  /\ handed[1].batch[1].timestamp = TsLate
  /\ handed[1].batch[2].timestamp = TsEarly
  /\ yielded[1].file # yielded[3].file
  /\ stats.oldestTimestamp = TsEarly

\* C8: batches are delivered one after another: the engine runs only while
\* backfillCommand waits for it; when the first attempt of a batch starts every
\* earlier batch has its final result and one delay has been slept per earlier
\* batch; no delay follows the last batch, so a run of B batches sleeps B - 1
\* delays.
C8_OneBatchAtATime ==
  /\ epc # "idle" => pc = "sending"
  /\ calls.sleep = Len(delays)
  /\ \A k \in 1..Len(delays) : delays[k] = delay
  /\ pc = "sending"
       => /\ sentBatches + permanentlyFailedBatches = Len(handed) - 1
          /\ Len(delays) = Len(handed) - 1
  /\ pc = "delay"
       => /\ sentBatches + permanentlyFailedBatches = Len(handed)
          /\ Len(delays) = Len(handed) - 1
  /\ pc = "batch"
       => /\ sentBatches + permanentlyFailedBatches = Len(handed)
          /\ Len(delays) = Len(handed)
  /\ (pc = "returned" /\ Len(handed) > 0) => Len(delays) = Len(handed) - 1
  /\ Len(handed) = 0 => Len(delays) = 0

\* C8 witness: the first attempt of the second batch is about to start; the first
\* batch used its three attempts and failed, and one delay has been slept
C8_Witness ==
  /\ pc = "sending"
  /\ epc = "try"
  /\ deliveryCalls = 0
  /\ Len(handed) = 2
  /\ totalRetryAttempts = 3
  /\ permanentlyFailedBatches = 1
  /\ delays = <<defaultDelay>>

IsRelativeShorthand(s) ==
  /\ Len(s) >= 2
  /\ s[Len(s)] \in {"d", "m", "w", "M", "y"}
  /\ \A k \in 1..(Len(s) - 1) : s[k] \in Digits

\* the value is one new Date() makes a date of
IsParseableDate(s) == DateParse(s).valid

NothingDone(fs) == \A f \in fs : calls[f] = 0

ExitedNonZero == pc = "exited" /\ exitCode # NoExit /\ exitCode[1] # 0

\* C10: backfillCommand checks its preconditions in order before any work:
\* without a configuration it exits with a non-zero code without parsing --since,
\* discovering files, streaming or sending; with a configuration and a --since
\* value that is neither a relative shorthand nor a parseable date it exits with
\* a non-zero code before file discovery, streaming or sending.
C10_PreconditionsInOrder ==
  /\ (pc # "loadConfig" /\ config = Null)
       => /\ ExitedNonZero
          /\ NothingDone({"parseSinceDate", "findFiles", "streamRecords", "sendBatch"})
  /\ ( /\ pc \notin {"loadConfig", "parseSince"}
       /\ config # Null
       /\ since # Undefined
       /\ ~IsRelativeShorthand(since)
       /\ ~IsParseableDate(since) )
       => /\ ExitedNonZero
          /\ NothingDone({"findFiles", "streamRecords", "sendBatch"})

\* file discovery has returned
Discovered == calls.findFiles = 1 /\ pc # "discover"

\* C11: whenever file discovery returns no file the run ends with a non-zero
\* exit code, no file is streamed and nothing is sent, whatever the verbose flag
\* and whether or not discovery reported errors; with at least one file found,
\* discovery errors do not stop the run.
C11_ZeroFilesIsTerminal ==
  /\ (Discovered /\ Len(jsonlFiles) = 0)
       => /\ ExitedNonZero
          /\ NothingDone({"streamRecords", "sendBatch"})
  /\ (Discovered /\ Len(jsonlFiles) > 0) => pc \notin {"exited", "threw"}

\* the run is past the accumulation of the records
AccumulationOver ==
  Discovered /\ pc \notin {"stream", "exited", "threw"}

\* C12: with at least one file discovered and no record accumulated after all
\* files were processed, the run returns normally (no exit code) at that point,
\* without statistics or sample payload, and the delivery engine is never
\* invoked.
C12_EmptyResultIsSuccess ==
  /\ (Len(jsonlFiles) >= 1 /\ Len(allRecords) = 0)
       => /\ calls.sendBatch = 0
          /\ handed = <<>>
          /\ epc = "idle"
          /\ pc \notin {"exited", "threw", "batch", "sending", "delay"}
  /\ (AccumulationOver /\ Len(jsonlFiles) >= 1 /\ Len(allRecords) = 0)
       => /\ pc = "returned"
          /\ exitCode = NoExit
          /\ stats = NoStats
          /\ samplePayload = NoPayload
          /\ processedFiles + skippedFiles = Len(jsonlFiles)

\* C12 witness: a run that sends has returned after two files, one read to its
\* end and one failed, that gave no record but a line with missing fields
C12_Witness ==
  /\ SendingRunOver
  /\ Len(jsonlFiles) = 2
  /\ allRecords = <<>>
  /\ processedFiles = 1
  /\ skippedFiles = 1
  /\ skippedMissingFields = 1
  /\ exitCode = NoExit

\* C13: an exception raised while one file is streamed counts that file as
\* failed and the next file is taken: every discovered file is streamed exactly
\* once, in the order of discovery, whatever files failed before it, and in the
\* end processedFiles + skippedFiles is the number of discovered files.
C13_FailedFileDoesNotStopTheRun ==
  /\ calls.streamRecords = Len(opened)
  /\ Len(opened) <= Len(jsonlFiles)
  /\ opened = SubSeq(jsonlFiles, 1, Len(opened))
  /\ pc = "stream"
       => /\ processedFiles + skippedFiles = fileIdx - 1
          /\ Len(opened) \in {fileIdx - 1, fileIdx}
  /\ AccumulationOver
       => /\ opened = jsonlFiles
          /\ processedFiles + skippedFiles = Len(jsonlFiles)

\* C13 witness: the first of two files has failed, the second is being streamed
\* and has yielded a record
C13_Witness ==
  /\ pc = "stream"
  /\ Len(jsonlFiles) = 2
  /\ fileIdx = 2
  /\ skippedFiles = 1
  /\ processedFiles = 0
  /\ opened = <<1, 2>>
  /\ fileStream = "open"
  /\ Len(yielded) = 1
  /\ yielded[1].file = 2

(***************************************************************************)
(* Claims about parseJsonlLine (SpecParse).                                *)
(***************************************************************************)
\* the line is empty or holds white space only
IsBlankLine(line) ==
  line.kind = "text" /\ \A k \in 1..Len(line.text) : line.text[k] \in WhiteSpace

\* the value is an object whose type is "assistant"
IsAssistantEntry(v) == v.t = "object" /\ "type" \in DOMAIN v.o /\ v.o.type = "assistant"

\* the value is an object with a usage object in its message
HasUsageObject(v) ==
  v.t = "object" /\ "message" \in DOMAIN v.o /\ "usage" \in DOMAIN v.o.message

\* the member k of the object is absent or empty
IsMissing(o, k) == k \notin DOMAIN o \/ o[k] = <<>>

\* the instant a is strictly earlier than the instant b
StrictlyEarlier(a, b) == a.day < b.day \/ (a.day = b.day /\ a.tod < b.tod)

CountOr0(usage, k) == IF k \in DOMAIN usage THEN usage[k] ELSE 0

\* the outcome the order of the rules gives for the line
OutcomeByRules(line, cutoff) ==
  LET v == JsonParse(line) IN
  IF IsBlankLine(line) THEN SkipLine
  ELSE IF v = JsonSyntaxFailure THEN ParseErrorLine
  ELSE IF ~IsAssistantEntry(v) \/ ~HasUsageObject(v) THEN SkipLine
  ELSE IF \/ IsMissing(v.o, "sessionId")
          \/ IsMissing(v.o, "timestamp")
          \/ IsMissing(v.o.message, "model")
  THEN MissingFieldsLine
  ELSE IF ~DateParse(v.o.timestamp).valid THEN SkipLine
  ELSE IF cutoff # Null /\ StrictlyEarlier(DateParse(v.o.timestamp), cutoff) THEN SkipLine
  ELSE LET u == v.o.message.usage IN
       IF CountOr0(u, "input_tokens") + CountOr0(u, "output_tokens")
          + CountOr0(u, "cache_read_input_tokens")
          + CountOr0(u, "cache_creation_input_tokens") = 0
       THEN SkipLine
       ELSE RecordLine([sessionId |-> v.o.sessionId,
                        timestamp |-> v.o.timestamp,
                        model |-> v.o.message.model,
                        inputTokens |-> CountOr0(u, "input_tokens"),
                        outputTokens |-> CountOr0(u, "output_tokens"),
                        cacheReadTokens |-> CountOr0(u, "cache_read_input_tokens"),
                        cacheCreationTokens |->
                          CountOr0(u, "cache_creation_input_tokens")])

\* C14: parseJsonlLine gives every line the outcome of the first rule that
\* matches, in the order: blank -> skip; not JSON -> parseError; type not
\* "assistant" or no usage object -> skip; sessionId, timestamp or model missing
\* -> missingFields; timestamp without a finite instant -> skip; timestamp
\* strictly earlier than the cutoff -> skip (equal is kept); token counts summing
\* to zero -> skip; otherwise the record, absent counts being 0.  Exactly one
\* outcome per line.
C14_FirstMatchingRule ==
  probeOut # <<>> => probeOut[1] = OutcomeByRules(probeIn.line, probeIn.cutoff)

\* C15: for every line, also one that is JSON for a value that is no object
\* (null, a number, a string, an array), parseJsonlLine returns one of the four
\* outcomes and does not raise.
C15_NoLineRaises ==
  probeOut # <<>>
    => probeOut[1].tag \in {"record", "parseError", "missingFields", "skip"}


(***************************************************************************)
(* Claims about streamJsonlRecords (SpecStream).                           *)
(***************************************************************************)
HandleReleased == fileStream = "destroyed" /\ rl = "closed"

HandleNeverAcquired == fileStream = "none" /\ rl = "none"

\* C16: once the iteration of streamJsonlRecords has ended, by normal
\* completion, by the consumer stopping early, or by an exception while a line
\* is processed, the read stream is destroyed and the line reader closed; the
\* handle is never left open (a generator ended before its body ran never
\* opened one).
C16_HandleReleasedOnEveryExit ==
  gpc = "completed" =>
    /\ fileStream # "open" /\ rl # "open"
    /\ genEnd \in {"done", "threw"} => HandleReleased
    /\ genEnd = "returned" =>
         \/ HandleReleased
         \/ HandleNeverAcquired /\ genYields = <<>> /\ linesRead = 0

\* the consumer stopped after a yielded result, with lines still unread
C16_Witness ==
  /\ gpc = "completed"
  /\ genEnd = "returned"
  /\ Len(genYields) >= 1
  /\ linesRead < MaxLines
  /\ HandleReleased

C16_WitnessThrew ==
  gpc = "completed" /\ genEnd = "threw" /\ Len(genYields) >= 1 /\ HandleReleased

C16_WitnessDone ==
  gpc = "completed" /\ genEnd = "done" /\ linesRead = MaxLines /\ HandleReleased

(***************************************************************************)
(* Claims about findJsonlFiles (SpecFind).                                 *)
(***************************************************************************)
\* the regular files named *.jsonl under dir that are reachable through
\* readable directories, in traversal order
RECURSIVE ReachableJsonl(_, _)
ReachableJsonl(dir, node) ==
  IF ~node.readable \/ node.entries = <<>> THEN <<>>
  ELSE LET e == Head(node.entries)
           here == IF e.kind = "dir" THEN ReachableJsonl(join(dir, e.name), e.node)
                   ELSE IF e.kind = "file" /\ endsWith(e.name, JsonlSuffix)
                   THEN <<join(dir, e.name)>>
                   ELSE <<>>
       IN here \o ReachableJsonl(dir, Readable(Tail(node.entries)))

\* '<dir>: <message>' for the unreadable directories reached from dir
RECURSIVE UnreadableReached(_, _)
UnreadableReached(dir, node) ==
  IF ~node.readable THEN {dir \o <<":", " ">> \o node.message}
  ELSE UNION {UnreadableReached(join(dir, node.entries[k].name), node.entries[k].node) :
                k \in {j \in 1..Len(node.entries) : node.entries[j].kind = "dir"}}

\* C17: findJsonlFiles never aborts on an unreadable directory: it returns
\* every regular file named *.jsonl that is reachable from the root through
\* readable directories, in traversal order, and exactly one error string
\* '<dir>: <message>' for each unreadable directory it reached; an unreadable
\* root gives no file and exactly one error.
C17_UnreadableDirectoryDoesNotAbort ==
  probeOut # <<>> =>
    LET r == probeOut[1]
        expected == UnreadableReached(probeIn.dir, probeIn.node)
    IN /\ r.files = ReachableJsonl(probeIn.dir, probeIn.node)
       /\ {r.errors[k] : k \in 1..Len(r.errors)} = expected
       /\ Len(r.errors) = Cardinality(expected)
       /\ ~probeIn.node.readable => r.files = <<>> /\ Len(r.errors) = 1

\* a file listed after an unreadable sibling subdirectory is returned, and so
\* is a file of a readable subdirectory that has an unreadable one inside
C17_Witness ==
  /\ probeOut # <<>>
  /\ probeIn.node.readable
  /\ Len(probeIn.node.entries) = 2
  /\ probeIn.node.entries[1].kind = "dir"
  /\ ~probeIn.node.entries[1].node.readable
  /\ isJsonlEntry(probeIn.node.entries[2])
  /\ probeOut[1].files = <<join(probeIn.dir, probeIn.node.entries[2].name)>>
  /\ Len(probeOut[1].errors) = 1

C17_WitnessBefore ==
  /\ probeOut # <<>>
  /\ probeIn.node.readable
  /\ Len(probeIn.node.entries) = 2
  /\ isJsonlEntry(probeIn.node.entries[1])
  /\ probeIn.node.entries[2].kind = "dir"
  /\ probeIn.node.entries[2].node.readable
  /\ Len(probeOut[1].files) = 2
  /\ Len(probeOut[1].errors) = 1

C17_WitnessRoot ==
  probeOut # <<>> /\ ~probeIn.node.readable /\ probeOut[1].files = <<>>

(***************************************************************************)
(* Claims about calculateStatistics (SpecStats).                           *)
(***************************************************************************)
\* the sum of field f over the first n records
RECURSIVE FieldSum(_, _, _)
FieldSum(records, f, n) ==
  IF n = 0 THEN 0 ELSE FieldSum(records, f, n - 1) + records[n][f]

\* no record of the list has an earlier (resp. later) instant than r
HasMinInstant(r, records) ==
  \A k \in 1..Len(records) :
    ~Before(DateParse(records[k].timestamp), DateParse(r.timestamp))

HasMaxInstant(r, records) ==
  \A k \in 1..Len(records) :
    ~Before(DateParse(r.timestamp), DateParse(records[k].timestamp))

\* C18: calculateStatistics of the empty list is all zeros with empty
\* timestamps; of N >= 1 records it has totalRecords = N, each token total the
\* sum of its field over all records, oldestTimestamp the timestamp string of
\* a record with the minimum parsed instant and newestTimestamp that of a
\* record with the maximum parsed instant.
C18_StatisticsAreCountsSumsAndExtremes ==
  probeOut # <<>> =>
    LET records == probeIn.records
        s == probeOut[1]
        n == Len(records)
    IN IF n = 0
       THEN s = [totalRecords |-> 0, oldestTimestamp |-> <<>>, newestTimestamp |-> <<>>,
                 totalInputTokens |-> 0, totalOutputTokens |-> 0,
                 totalCacheReadTokens |-> 0, totalCacheCreationTokens |-> 0]
       ELSE /\ s.totalRecords = n
            /\ s.totalInputTokens = FieldSum(records, "inputTokens", n)
            /\ s.totalOutputTokens = FieldSum(records, "outputTokens", n)
            /\ s.totalCacheReadTokens = FieldSum(records, "cacheReadTokens", n)
            /\ s.totalCacheCreationTokens = FieldSum(records, "cacheCreationTokens", n)
            /\ \E k \in 1..n : /\ records[k].timestamp = s.oldestTimestamp
                               /\ HasMinInstant(records[k], records)
            /\ \E k \in 1..n : /\ records[k].timestamp = s.newestTimestamp
                               /\ HasMaxInstant(records[k], records)

\* three records given newest first, neither extreme at its place in the list
C18_Witness ==
  /\ probeOut # <<>>
  /\ Len(probeIn.records) = 3
  /\ probeIn.records[1].timestamp = TsCutoff
  /\ probeIn.records[2].timestamp = TsLate
  /\ probeIn.records[3].timestamp = TsEarly
  /\ probeOut[1].oldestTimestamp = TsEarly
  /\ probeOut[1].newestTimestamp = TsLate
  /\ probeOut[1].totalCacheReadTokens = 14

C18_WitnessEmpty ==
  probeOut # <<>> /\ probeIn.records = <<>> /\ probeOut[1].totalRecords = 0

(***************************************************************************)
(* Claims about createOtlpPayload (SpecPayload).                           *)
(***************************************************************************)
\* the places of the records whose timestamp converts to a nanosecond epoch
Convertible(records) ==
  {k \in 1..Len(records) : DateParse(records[k].timestamp).valid}

\* the place of the j-th convertible record
NthConvertible(records, j) ==
  CHOOSE k \in Convertible(records) :
    Cardinality({c \in Convertible(records) : c <= k}) = j

\* C19: createOtlpPayload returns a payload for every list of usage records:
\* a record whose timestamp cannot be converted to a nanosecond epoch is
\* dropped, every other record gives exactly one log record, in the order of
\* the input; the payload has exactly one resource entry, with the service
\* name and the numeric cost multiplier, a multiplier of 0 being emitted as 0.
C19_PayloadKeepsConvertibleRecordsInOrder ==
  probeOut # <<>> =>
    LET records == probeIn.records
        payload == probeOut[1]
        logs == payload.resourceLogs[1].scopeLogs[1].logRecords
        attrs == payload.resourceLogs[1].resource.attributes
    IN /\ DOMAIN payload = {"resourceLogs"}
       /\ Len(payload.resourceLogs) = 1
       /\ Len(payload.resourceLogs[1].scopeLogs) = 1
       /\ \E a \in 1..Len(attrs) :
            attrs[a] = [key |-> "service.name", value |-> [stringValue |-> "claude-code"]]
       /\ \E a \in 1..Len(attrs) :
            attrs[a] = [key |-> "cost_multiplier",
                        value |-> [doubleValue |-> probeIn.options.costMultiplier]]
       /\ Len(logs) = Cardinality(Convertible(records))
       /\ \A j \in 1..Len(logs) :
            LET r == records[NthConvertible(records, j)] IN
            /\ logs[j].timeUnixNano = toUnixNano(r.timestamp)
            /\ logs[j].timeUnixNano # Null
            /\ logs[j].attributes[1] =
                 [key |-> "transaction_id",
                  value |-> [stringValue |-> generateTransactionId(r)]]
            /\ logs[j].attributes[2] =
                 [key |-> "session.id", value |-> [stringValue |-> r.sessionId]]

\* a payload with a multiplier of 0, built from three records of which the
\* middle one has a timestamp that cannot be converted
C19_Witness ==
  /\ probeOut # <<>>
  /\ probeIn.options.costMultiplier = 0
  /\ Len(probeIn.records) = 3
  /\ Convertible(probeIn.records) = {1, 3}
  /\ probeIn.records[1] # probeIn.records[3]
  /\ Len(probeOut[1].resourceLogs[1].scopeLogs[1].logRecords) = 2
  /\ probeOut[1].resourceLogs[1].resource.attributes[2].value.doubleValue = 0

(***************************************************************************)
(* Claims about the transaction id (SpecTxn).                              *)
(***************************************************************************)
\* C20: the transaction id of a record is a function of its seven fields
\* alone: equal fields give equal ids whatever the payload options and the
\* batch the record is in, and a change of any single field changes the id.
C20_TransactionIdIsAFunctionOfTheSevenFields ==
  probeOut # <<>> =>
    /\ DifferingFields(probeIn.a, probeIn.b) = {} => probeOut[1] = probeOut[2]
    /\ Cardinality(DifferingFields(probeIn.a, probeIn.b)) = 1
         => probeOut[1] # probeOut[2]

\* equal records, in different places of different payloads under different
\* options, got the same id
C20_Witness ==
  /\ probeOut # <<>>
  /\ probeIn.a = probeIn.b
  /\ probeIn.before # <<>>
  /\ probeIn.optionsA # probeIn.optionsB
  /\ probeOut[1] = probeOut[2]

C20_WitnessChanged ==
  /\ probeOut # <<>>
  /\ DifferingFields(probeIn.a, probeIn.b) = {"cacheCreationTokens"}
  /\ probeIn.a.sessionId = <<"a", "|", "b">>
  /\ probeOut[1] # probeOut[2]

(***************************************************************************)
(* Claims about generateTransactionId and its digest (SpecHash).           *)
(***************************************************************************)
\* the id hashing.test.ts expects for its test vector
TestVectorId ==
  <<"a", "4", "a", "e", "0", "2", "4", "1", "3", "2", "0", "c", "d", "3", "5", "5",
    "0", "8", "c", "0", "2", "2", "a", "f", "0", "1", "4", "2", "4", "3", "8", "2">>

\* the seven fields in their order, joined with |
SevenFieldsJoined(c) ==
  c.sessionId \o <<"|">> \o c.timestamp \o <<"|">> \o c.model \o <<"|">>
  \o NumToString(c.inputTokens) \o <<"|">> \o NumToString(c.outputTokens) \o <<"|">>
  \o NumToString(c.cacheReadTokens) \o <<"|">> \o NumToString(c.cacheCreationTokens)

\* C21: generateTransactionId returns the first 32 lowercase hex characters of
\* the SHA-256 digest of the seven fields joined with | in the order
\* sessionId, timestamp, model, inputTokens, outputTokens, cacheReadTokens,
\* cacheCreationTokens (the digest cut, not hashed again); for the test vector
\* of the test suite it is a4ae0241320cd35508c022af01424382.
C21_IdIsTruncatedSha256OfJoinedFields ==
  /\ (probeOut # <<>> /\ probeOut[1].phase = "rounds")
       => probeOut[1].bytes = PaddedBytes(SevenFieldsJoined(probeIn.components))
  /\ (probeOut # <<>> /\ probeOut[1].phase = "returned")
       => /\ Len(probeOut[1].digest) = 64
          /\ Len(probeOut[1].id) = 32
          /\ probeOut[1].id = SubSeq(probeOut[1].digest, 1, 32)
          /\ \A k \in 1..32 :
               probeOut[1].id[k] \in {HexDigits[d] : d \in 1..16}
          /\ probeIn.components = TestVector => probeOut[1].id = TestVectorId

\* the id of the test vector has been computed, over the two blocks of its
\* padded message
C21_Witness ==
  /\ probeOut # <<>>
  /\ probeOut[1].phase = "returned"
  /\ probeIn.components = TestVector
  /\ Len(PaddedBytes(SevenFieldsJoined(TestVector))) = 128
  /\ probeOut[1].id = TestVectorId

(***************************************************************************)
(* Claims about the cost multiplier (SpecCost).                            *)
(***************************************************************************)
\* the multiplier by the stated precedence: the override if there is one (0
\* included), else the multiplier of the configured tier, else 0.08
ByPrecedence(c) ==
  IF "costMultiplierOverride" \in DOMAIN c THEN c.costMultiplierOverride
  ELSE IF "subscriptionTier" \in DOMAIN c /\ c.subscriptionTier \in SubscriptionTiers
  THEN getCostMultiplier(c.subscriptionTier)
  ELSE 8

\* C22: the cost multiplier of a run is the explicit override when the
\* configuration has one, the value 0 included; otherwise the multiplier of the
\* configured subscription tier; otherwise the default 0.08; and every payload
\* of the run carries that same value.
C22_CostMultiplierByPrecedence ==
  \A k \in 1..Len(probeOut) :
    probeOut[k].resourceLogs[1].resource.attributes[2] =
      [key |-> "cost_multiplier",
       value |-> [doubleValue |-> ByPrecedence(probeIn.config)]]

\* two payloads under an override of 0 that wins over a configured tier
C22_Witness ==
  /\ Len(probeOut) = 2
  /\ "costMultiplierOverride" \in DOMAIN probeIn.config
  /\ probeIn.config.costMultiplierOverride = 0
  /\ "subscriptionTier" \in DOMAIN probeIn.config
  /\ probeIn.config.subscriptionTier = "api"
  /\ probeOut[1] # probeOut[2]
  /\ probeOut[2].resourceLogs[1].resource.attributes[2].value.doubleValue = 0

C22_WitnessTier ==
  /\ Len(probeOut) = 2
  /\ "costMultiplierOverride" \notin DOMAIN probeIn.config
  /\ "subscriptionTier" \in DOMAIN probeIn.config
  /\ probeIn.config.subscriptionTier = "team_premium"
  /\ probeOut[2].resourceLogs[1].resource.attributes[2].value.doubleValue = 24

C22_WitnessDefault ==
  /\ Len(probeOut) = 1
  /\ DOMAIN probeIn.config = {"apiKey", "endpoint"}
  /\ probeOut[1].resourceLogs[1].resource.attributes[2].value.doubleValue = 8

(***************************************************************************)
(* Claims about the counters of a sending run (Spec).                      *)
(***************************************************************************)
\* the records of the batches whose result was a success
RECURSIVE RecordsDelivered(_)
RecordsDelivered(h) ==
  IF h = <<>> THEN 0
  ELSE (IF h[1].result.success THEN Len(h[1].batch) ELSE 0) + RecordsDelivered(Tail(h))

\* the sum over the batches of (attempts - 1)
RECURSIVE AttemptsBeyondFirst(_)
AttemptsBeyondFirst(h) ==
  IF h = <<>> THEN 0 ELSE (h[1].result.attempts - 1) + AttemptsBeyondFirst(Tail(h))

\* one entry per failed batch, in the order of the batches
RECURSIVE FailuresOf(_)
FailuresOf(h) ==
  IF h = <<>> THEN <<>>
  ELSE (IF h[1].result.success THEN <<>>
        ELSE <<[batchNumber |-> h[1].batchNumber,
                error |-> IF "error" \in DOMAIN h[1].result /\ h[1].result.error # <<>>
                          THEN h[1].result.error
                          ELSE UnknownError]>>)
       \o FailuresOf(Tail(h))

\* C23: at the end of a run that is not a dry run the counters agree with the
\* results of the batches: batches sent + batches failed for good = total
\* batches; records sent = the sizes of the delivered batches together; the
\* failed-batch list has one entry (batch number from 1, error string) per
\* failed batch, in ascending order; and the retry attempts reported are the
\* sum over the batches of (attempts - 1).
C23_CountersAgreeWithBatchResults ==
  SendingRunOver =>
    LET totalBatches == CeilDiv(Len(allRecords), batchSize)
        delivered == {k \in 1..Len(handed) : handed[k].result.success}
    IN /\ Len(handed) = totalBatches
       /\ sentBatches + permanentlyFailedBatches = totalBatches
       /\ sentBatches = Cardinality(delivered)
       /\ sentRecords = RecordsDelivered(handed)
       /\ failedBatchDetails = FailuresOf(handed)
       /\ Len(failedBatchDetails) = permanentlyFailedBatches
       /\ \A j \in 1..Len(failedBatchDetails) :
            /\ failedBatchDetails[j].batchNumber \in 1..totalBatches
            /\ j > 1 => failedBatchDetails[j - 1].batchNumber
                          < failedBatchDetails[j].batchNumber
       /\ retriedBatches(totalRetryAttempts, totalBatches) = AttemptsBeyondFirst(handed)

\* a run of two batches: the first, full, failed for good after three attempts,
\* the second, of one record, was delivered at its second attempt
C23_Witness ==
  /\ SendingRunOver
  /\ Len(handed) = 2
  /\ ~handed[1].result.success
  /\ handed[1].result.attempts = 3
  /\ handed[2].result.success
  /\ handed[2].result.attempts = 2
  /\ Len(handed[1].batch) = 2
  /\ sentRecords = 1
  /\ retriedBatches(totalRetryAttempts, 2) = 3

(***************************************************************************)
(* Claims about sanitizeErrorMessage (SpecSanitize).                       *)
(***************************************************************************)
\* C24: sanitizeErrorMessage returns a message of at most 500 characters
\* unchanged and replaces a longer one by its first 500 characters followed by
\* three dots; so the error string of a result is at most 503 characters long,
\* and sanitizing a sanitized message returns it unchanged.
C24_SanitizeTruncatesAt500 ==
  /\ Len(probeOut) >= 1 =>
       LET raw == probeIn.rawErrorMsg
           stored == probeOut[1]
       IN /\ Len(raw) <= 500 => stored = raw
          /\ Len(raw) > 500 => stored = SubSeq(raw, 1, 500) \o <<".", ".", ".">>
          /\ Len(stored) <= 503
  /\ Len(probeOut) = 2 => probeOut[2] = probeOut[1]

\* the message of a failed request with a long status text was cut to 503
\* characters, and sanitizing it again left it as it was
C24_Witness ==
  /\ Len(probeOut) = 2
  /\ probeIn.rawErrorMsg = sendOtlpLogs(LongResponse).message
  /\ Len(probeIn.rawErrorMsg) > 503
  /\ Len(probeOut[1]) = 503
  /\ probeOut[2] = probeOut[1]

C24_WitnessAtTheLimit ==
  /\ Len(probeOut) = 2
  /\ Len(probeIn.rawErrorMsg) = 500
  /\ probeOut[1] = probeIn.rawErrorMsg

(***************************************************************************)
(* Claims about the attribution attributes (SpecAttribution).              *)
(***************************************************************************)
\* the values of the attributes of a log record that have the key k
ValuesUnder(logRecord, k) ==
  {logRecord.attributes[ix].value :
     ix \in {jx \in DOMAIN logRecord.attributes : logRecord.attributes[jx].key = k}}

\* name || id of the options, Undefined when neither is given
NameOrId(name, id) ==
  IF ~Falsy(name) THEN name ELSE IF ~Falsy(id) THEN id ELSE Undefined

AttachedExactlyWhenGiven(logRecord, k, given) ==
  ValuesUnder(logRecord, k) = IF given = Undefined THEN {} ELSE {stringValue(given)}

\* C25: every log record carries user.email exactly when email is given,
\* organization.name exactly when organizationName (or, as a fallback, the
\* deprecated organizationId) is given, product.name exactly when productName
\* (or the deprecated productId) is given, each with the given value; an
\* attribute whose option is absent is absent.
C25_AttributionUnderNameKeys ==
  probeOut # <<>> =>
    LET o == probeIn.options
        logRecords == logRecordsIn(probeOut[1])
    IN \A ix \in DOMAIN logRecords :
         /\ AttachedExactlyWhenGiven(logRecords[ix], "user.email",
                                     NameOrId(o.email, Undefined))
         /\ AttachedExactlyWhenGiven(logRecords[ix], "organization.name",
                                     NameOrId(o.organizationName, o.organizationId))
         /\ AttachedExactlyWhenGiven(logRecords[ix], "product.name",
                                     NameOrId(o.productName, o.productId))

\* what the source does: the attributes are keyed organization.id and
\* product.id, carry organizationId and productId, and organizationName and
\* productName are not read
AttributionUnderIdKeys ==
  probeOut # <<>> =>
    LET o == probeIn.options
        logRecords == logRecordsIn(probeOut[1])
    IN /\ Len(logRecords) = Len(probeIn.records)
       /\ \A ix \in DOMAIN logRecords :
            /\ AttachedExactlyWhenGiven(logRecords[ix], "user.email",
                                        NameOrId(o.email, Undefined))
            /\ AttachedExactlyWhenGiven(logRecords[ix], "organization.id",
                                        NameOrId(o.organizationId, Undefined))
            /\ AttachedExactlyWhenGiven(logRecords[ix], "product.id",
                                        NameOrId(o.productId, Undefined))
            /\ ValuesUnder(logRecords[ix], "organization.name") = {}
            /\ ValuesUnder(logRecords[ix], "product.name") = {}

(***************************************************************************)
(* Claims about the records of a run (Spec).                               *)
(***************************************************************************)
\* d is not earlier than the cut-off
NotEarlier(d, cutoff) ==
  d.day > cutoff.day \/ (d.day = cutoff.day /\ d.tod >= cutoff.tod)

\* what parseJsonlLine guarantees of a record it returns
Materialized(record, cutoff) ==
  /\ record.sessionId # <<>> /\ record.sessionId # Undefined
  /\ record.timestamp # <<>> /\ record.timestamp # Undefined
  /\ record.model # <<>> /\ record.model # Undefined
  /\ DateParse(record.timestamp).valid
  /\ cutoff # Null => NotEarlier(DateParse(record.timestamp), cutoff)
  /\ \/ record.inputTokens # 0
     \/ record.outputTokens # 0
     \/ record.cacheReadTokens # 0
     \/ record.cacheCreationTokens # 0

\* the fields of the record as the log record carries them
CarriedFields(logRecord) ==
  [sessionId |-> ValuesUnder(logRecord, "session.id"),
   model |-> ValuesUnder(logRecord, "model"),
   inputTokens |-> ValuesUnder(logRecord, "input_tokens"),
   outputTokens |-> ValuesUnder(logRecord, "output_tokens"),
   cacheReadTokens |-> ValuesUnder(logRecord, "cache_read_tokens"),
   cacheCreationTokens |-> ValuesUnder(logRecord, "cache_creation_tokens")]

FieldsOf(record) ==
  [sessionId |-> {[stringValue |-> record.sessionId]},
   model |-> {[stringValue |-> record.model]},
   inputTokens |-> {[intValue |-> record.inputTokens]},
   outputTokens |-> {[intValue |-> record.outputTokens]},
   cacheReadTokens |-> {[intValue |-> record.cacheReadTokens]},
   cacheCreationTokens |-> {[intValue |-> record.cacheCreationTokens]}]

\* C26: every record of the accumulated list has a non-empty sessionId,
\* timestamp and model, a timestamp that parses to an instant not earlier than
\* the cut-off (when there is one) and at least one token count that is not 0;
\* the records stay as the streams yielded them: the list is the yielded
\* records, every batch handed to the engine is made of them, and the log
\* records of its payload carry their fields and the time of their timestamp.
C26_AccumulatedRecordsAreMaterialized ==
  /\ \A k \in 1..Len(yielded) : Materialized(yielded[k].record, sinceDate)
  /\ allRecords = RecordsOf(yielded)
  /\ \A k \in 1..Len(handed) :
       LET logs == logRecordsIn(handed[k].payload) IN
       \A n \in 1..Len(handed[k].batch) :
         LET record == handed[k].batch[n] IN
         /\ record = yielded[(k - 1) * batchSize + n].record
         /\ Materialized(record, sinceDate)
         /\ n <= Len(logs)
         /\ CarriedFields(logs[n]) = FieldsOf(record)
         /\ logs[n].timeUnixNano = toUnixNano(record.timestamp)
         /\ logs[n].timeUnixNano # Null

\* C26 witness: a run with a cut-off read three lines, two of them gave
\* records, and the two were sent as one batch
C26_Witness ==
  /\ sinceDate # Null
  /\ dryRun = FALSE
  /\ linesRead = MaxLines
  /\ Len(yielded) = 2
  /\ Len(handed) = 1
  /\ Len(handed[1].batch) = 2
  /\ sentRecords = 2
  /\ pc = "returned"

(***************************************************************************)
(* Claims about repeated delivery (SpecRetry).                             *)
(***************************************************************************)
\* C27: once a delivery call of the batch has been answered by an ok (2xx)
\* response, whatever its body, no further delivery call is made for the batch.
C27_NoPostAfterOkResponse ==
  [][(epc # "idle" /\ ResponseOk(lastResponse)) => deliveryCalls' = deliveryCalls]_vars

\* the log records of the payloads whose batch got a result of success
RECURSIVE LogRecordsDelivered(_)
LogRecordsDelivered(h) ==
  IF h = <<>> THEN 0
  ELSE (IF "result" \in DOMAIN h[1] /\ h[1].result.success
        THEN Len(logRecordsIn(h[1].payload)) ELSE 0)
       + LogRecordsDelivered(Tail(h))

\* C28: the payload builder drops no record that parseJsonlLine returned: the
\* payload of every batch has exactly batch.length log records, and the count
\* of records sent is the number of log records in the payloads that were
\* delivered with success.
C28_PayloadHasOneLogRecordPerRecord ==
  /\ \A k \in 1..Len(handed) :
       /\ Len(logRecordsIn(handed[k].payload)) = Len(handed[k].batch)
       /\ Len(handed[k].batch) >= 1
  /\ sentRecords = LogRecordsDelivered(handed)

\* C28 witness: two batches, of two records and of one, both delivered: three
\* records sent, three log records in the two payloads
C28_Witness ==
  /\ SendingRunOver
  /\ Len(handed) = 2
  /\ handed[1].result.success
  /\ handed[2].result.success
  /\ Len(logRecordsIn(handed[1].payload)) = 2
  /\ Len(logRecordsIn(handed[2].payload)) = 1
  /\ sentRecords = 3

\* a is an initial part of b
IsInitialPart(a, b) == Len(a) <= Len(b) /\ a = SubSeq(b, 1, Len(a))

\* C29: when streaming a file fails part-way, what the file yielded before is
\* kept: the step that counts the file as skipped leaves the accumulated list,
\* the parse-error count and the missing-fields count as they are, no step
\* ever shortens the list or lowers a count, the list is at every moment the
\* records the files yielded, file after file in the order of discovery, and a
\* run that sends hands all of them to the engine.
C29_FailureKeepsWhatWasYielded ==
  /\ [](/\ allRecords = RecordsOf(yielded)
        /\ \A k \in 1..(Len(yielded) - 1) : yielded[k].file <= yielded[k + 1].file
        /\ SendingRunOver => ConcatBatches(handed) = RecordsOf(yielded))
  /\ [][/\ IsInitialPart(allRecords, allRecords')
        /\ skippedLines' >= skippedLines
        /\ skippedMissingFields' >= skippedMissingFields
        /\ skippedFiles' # skippedFiles
             => /\ allRecords' = allRecords
                /\ skippedLines' = skippedLines
                /\ skippedMissingFields' = skippedMissingFields]_vars

\* C29 witness: the only file gave a parse error, a line with missing fields
\* and a record, then failed; the record was sent and the counts stand
C29_Witness ==
  /\ SendingRunOver
  /\ Len(opened) = 1
  /\ processedFiles = 0
  /\ skippedFiles = 1
  /\ skippedLines = 1
  /\ skippedMissingFields = 1
  /\ Len(yielded) = 1
  /\ sentRecords = 1

(***************************************************************************)
(* Claims about termination (FairSpec).                                    *)
(***************************************************************************)
\* the run is over: process.exit, the return of backfillCommand, or an error
\* that leaves it (an unhandled rejection ends the process)
RunEnded == pc \in {"exited", "returned", "threw"}

\* the delivery calls made so far in the run: those of the batches that have
\* their result and those of the batch being sent
DeliveryCallsOfRun == totalRetryAttempts + deliveryCalls

\* C30: every run of backfillCommand ends, by process exit or by returning,
\* and makes at most 3 * ceil(N / batchSize) delivery calls: at most 3 per
\* batch, and the batches are taken one after the other with a growing index.
C30_RunEndsWithinTheCallBound ==
  /\ [](/\ deliveryCalls <= 3
        /\ epc = "done" => retryResult.attempts = deliveryCalls
        /\ Len(handed) <= CeilDiv(Len(allRecords), batchSize)
        /\ DeliveryCallsOfRun <= 3 * Len(handed)
        /\ DeliveryCallsOfRun <= 3 * CeilDiv(Len(allRecords), batchSize))
  /\ [][i' = i \/ i' = i + batchSize]_vars
  /\ <>RunEnded
  /\ [][RunEnded => UNCHANGED vars]_vars

\* C30 witness: a run of two batches that took three delivery calls each has
\* returned
C30_Witness ==
  /\ SendingRunOver
  /\ Len(handed) = 2
  /\ totalRetryAttempts = 6
  /\ CeilDiv(Len(allRecords), batchSize) = 2
====
